---------------------------- MODULE Spec2Model ----------------------------
(***************************************************************************)
(* PicoSWITool (swi_tool.c): the master side of the AT21CS11 single-wire   *)
(* protocol on the two cores of an RP2040.                                 *)
(*                                                                         *)
(*   core 0  main / handle_command and the session operations              *)
(*           (read_mfr_id, load_address, read_eeprom, verified_read,       *)
(*           read_block), which talk to core 1 through send_cmd;           *)
(*   core 1  core1_entry and the bit-banged primitives (tx_byte, rx_byte,  *)
(*           discovery_response and the bit-level functions below them).   *)
(*                                                                         *)
(* The two inter-core FIFOs, the interrupt mask of core 1 and the GPIO     *)
(* direction / output register of the single-wire pin are the hardware     *)
(* state.  The device on the line is the environment: whenever the pin is  *)
(* sampled it presents a level of its own choosing.                        *)
(***************************************************************************)
EXTENDS Integers, Sequences, FiniteSets, TLC

(***************************************************************************)
(* Bounds of the model.                                                    *)
(***************************************************************************)
\* Depth of each inter-core FIFO (entries).
FifoDepth == 8
\* The device answers RX_BYTE with one of NumDevBytes different bytes.
NumDevBytes == 3
\* Longest block a readBlock command of the model reads from the device.
MaxBlockLen == 2
\* Number of send_cmd calls the raw-request harness issues.
MaxReqs == 2
\* the most cycles a wait may last beyond the cycles asked for
MaxOvershoot == 8

(***************************************************************************)
(* Program constants.                                                      *)
(***************************************************************************)
TX_BYTE == 1
DISCOVERY == 2
RX_BYTE == 3
SEND_ACK == 0
SEND_NACK == 1
T_PRUSA_LOW1_US == 2
T_PRUSA_LOW0_US == 10
T_PRUSA_RD_US == 1
T_PRUSA_MRS_US == 1
T_PRUSA_BIT_US == 25
T_ATMEL_ST_LOW1_US == 4
T_ATMEL_ST_LOW0_US == 24
T_ATMEL_ST_RD_US == 4
T_ATMEL_ST_MRS_US == 2
\* mutant of T_ATMEL_ST_BIT_US: a bit period shorter than the low pulse of a 0
T_ATMEL_ST_BIT_US_SHORT == T_ATMEL_ST_LOW0_US - 1
T_ATMEL_ST_BIT_US == 45
T_ATMEL_HI_LOW1_US == 1
T_ATMEL_HI_LOW0_US == 10
T_ATMEL_HI_RD_US == 1
T_ATMEL_HI_MRS_US == 1
T_ATMEL_HI_BIT_US == 15
\* the three timing presets
Preset(low1, low0, rd, mrs, bit) ==
    [low1 |-> low1, low0 |-> low0, rd |-> rd, mrs |-> mrs, bit |-> bit]
Presets ==
    {Preset(T_PRUSA_LOW1_US, T_PRUSA_LOW0_US, T_PRUSA_RD_US, T_PRUSA_MRS_US, T_PRUSA_BIT_US),
     Preset(T_ATMEL_ST_LOW1_US, T_ATMEL_ST_LOW0_US, T_ATMEL_ST_RD_US, T_ATMEL_ST_MRS_US,
            T_ATMEL_ST_BIT_US),
     Preset(T_ATMEL_HI_LOW1_US, T_ATMEL_HI_LOW0_US, T_ATMEL_HI_RD_US, T_ATMEL_HI_MRS_US,
            T_ATMEL_HI_BIT_US)}
time_bit == T_PRUSA_BIT_US
time_rd == T_PRUSA_RD_US
time_mrs == T_PRUSA_MRS_US
time_low1 == T_PRUSA_LOW1_US
time_low0 == T_PRUSA_LOW0_US
\* mutant of tx_one_btime: the low pulse is not deducted from the bit period
tx_one_btime_whole == T_PRUSA_BIT_US
tx_one_btime == T_PRUSA_BIT_US - T_PRUSA_LOW1_US
tx_zero_btime == T_PRUSA_BIT_US - T_PRUSA_LOW0_US
rd_btime == T_PRUSA_BIT_US - T_PRUSA_RD_US - T_PRUSA_MRS_US
OPCODE_EEPROM_ACCESS == 160
OPCODE_MANUFACTURER_ID == 192
RW_BIT == 1
\* read_block: if (data_addr + len > 128); load_address: if (data_addr > 128)
EEPROM_LIMIT == 128
\* the result of the default branch of core1_entry's switch
UNKNOWN_CMD_ACK == 255

(***************************************************************************)
(* Fixed-width arithmetic.  A uint32_t is the tuple of its four bytes,     *)
(* most significant first; narrower values are plain numbers.              *)
(***************************************************************************)
U8(x) == x % 256

RECURSIVE BitOrN(_, _, _)
BitOrN(a, b, n) ==
    IF n = 0 THEN 0
    ELSE (IF (a % 2 = 1) \/ (b % 2 = 1) THEN 1 ELSE 0)
         + 2 * BitOrN(a \div 2, b \div 2, n - 1)

\* a | b on operands below 2^24
BitOr(a, b) == BitOrN(a, b, 24)

\* x << n on an operand that stays below 2^31
Shl(x, n) == x * (2 ^ n)

\* the 32-bit word of a value 0 .. 2^31 - 1
Word(x) == <<(x \div 16777216) % 256, (x \div 65536) % 256, (x \div 256) % 256, x % 256>>

\* w << 24, w >> 24 and a | b on 32-bit words
WordShl24(w) == <<w[4], 0, 0, 0>>

WordShr24(w) == <<0, 0, 0, w[1]>>

WordOr(a, b) == [i \in 1 .. 4 |-> BitOrN(a[i], b[i], 8)]

\* (uint8_t) w
WordLow8(w) == w[4]

(***************************************************************************)
(* The request envelope: send_cmd packs, core1_entry unpacks.              *)
(***************************************************************************)
\* (cmd << 24) | data
Pack(cmd, data) == WordOr(WordShl24(Word(cmd)), Word(data))

\* mutant of OpcodeOf: the opcode is taken from the low byte
OpcodeOfLow(item) == WordLow8(item)

\* (item >> 24) & 0xFF
OpcodeOf(item) == WordLow8(WordShr24(item))

\* item & 0xFF
PayloadOf(item) == WordLow8(item)

(***************************************************************************)
(* The device (environment).                                               *)
(***************************************************************************)
\* The bytes the device may shift out in answer to RX_BYTE.
DevBytes == 5 .. (4 + NumDevBytes)

LOW == 0
HIGH == 1

VARIABLES
    fifo01,     \* FIFO core 0 -> core 1: sequence of [w |-> 32-bit word, tag |-> ghost]
    fifo10,     \* FIFO core 1 -> core 0: sequence of [w |-> 32-bit word, tag |-> ghost]
    gpio_dir,   \* direction of SINGLE_WIRE_PIN: "in" (released) or "out" (driven)
    gpio_out,   \* output register of SINGLE_WIRE_PIN
    irq1,       \* interrupts enabled on core 1
    core1,      \* core 1: program counter, call stack and locals
    core0,      \* core 0: program counter, call stack and locals
    resp,       \* the last response handle_command printed
    bus,        \* ghost: line operations of the request core 1 is serving
    g1,         \* ghost: per-request counters of core 1
    g0,         \* ghost: request bookkeeping of core 0
    exec_log,   \* ghost: tag -> [item, ack] of the request core 1 served under that tag
    raw,        \* the raw-request harness: calls made and results returned
    device,     \* the device on the line: how it answers, and the symbols it has seen
    timer       \* the platform clock and the last call of soft_delay_us

vars == <<fifo01, fifo10, gpio_dir, gpio_out, irq1, core1, core0, resp,
          bus, g1, g0, exec_log, raw, device, timer>>

hw == <<gpio_dir, gpio_out, irq1>>

(***************************************************************************)
(* Core 1: call / return of the nested primitives.                         *)
(***************************************************************************)
Call1(c, fn, back) == [c EXCEPT !.pc = fn, !.stack = <<back>> \o c.stack]

Return1(c, v) == [c EXCEPT !.pc = Head(c.stack), !.stack = Tail(c.stack), !.ret = v]

\* core 1 between two requests: every local of the loop body is dead
Core1Blank ==
    [pc |-> "c1_pop", stack |-> <<>>, item |-> Word(0), cmd |-> 0, data |-> 0, ack |-> 0,
     irq_status |-> TRUE, data_byte |-> 0, ii |-> 0, temp |-> 0, rx_ack |-> 0,
     ret |-> 0, tag |-> 0]

G1Blank == [nprim |-> 0, ndisable |-> 0, nrestore |-> 0]

\* one line operation followed by soft_delay_us(us), as the waveform log records it
BusOp(op, us, lvl) == [op |-> op, us |-> us, lvl |-> lvl]

\* the level field of a line operation that does not sample
NoLevel == HIGH + 1

\* the device as the line sees it: an EEPROM that shifts out one of DevBytes,
\* a device that may present any level at any sample, or a loopback that
\* presents again the symbols it was sent
Device(mode) == [mode |-> mode, seen |-> <<>>]

\* a loopback device records the symbol of a transmit slot
Capture(d, symbol) ==
    IF d.mode = "loopback" THEN [d EXCEPT !.seen = Append(d.seen, symbol)] ELSE d

(***************************************************************************)
(* The levels the device may present at the next sample.  While read_byte  *)
(* collects a byte an EEPROM shifts out one of DevBytes, MSB first, and a  *)
(* loopback the symbols it has recorded, in order; at every other sample   *)
(* (ack/nack slot, discovery) and for any other device the level is free.  *)
(***************************************************************************)
DeviceLevels(c) ==
    IF c.stack # <<>> /\ Head(c.stack) = "read_byte_acc"
    THEN CASE device.mode = "eeprom" ->
                {b \in {LOW, HIGH} :
                    \E v \in DevBytes : v \div (2 ^ (7 - c.ii)) = 2 * c.data_byte + b}
           [] device.mode = "loopback" /\ c.ii < Len(device.seen) ->
                {device.seen[c.ii + 1]}
           [] OTHER -> {LOW, HIGH}
    ELSE {LOW, HIGH}

(***************************************************************************)
(* Bus line driver.                                                        *)
(***************************************************************************)
sio_set_high == gpio_dir' = "in"

sio_set_low == gpio_dir' = "out"

\* gpio_set_dir(GPIO_IN); return gpio_get(): the level is the device's
sio_get_value(lvl) == gpio_dir' = "in" /\ lvl \in DeviceLevels(core1)

\* mutant of init_open_drain_swi_pin: gpio_put(SINGLE_WIRE_PIN, 1)
init_open_drain_swi_pin_put_high ==
    /\ core1.pc = "c1_init"
    /\ gpio_dir' = "in"
    /\ gpio_out' = 1
    /\ core1' = [core1 EXCEPT !.pc = "c1_pop"]
    /\ UNCHANGED <<fifo01, fifo10, irq1, core0, resp, bus, g1, g0, exec_log, raw, device, timer>>

init_open_drain_swi_pin ==
    /\ core1.pc = "c1_init"
    /\ gpio_dir' = "in"
    /\ gpio_out' = 0
    /\ core1' = [core1 EXCEPT !.pc = "c1_pop"]
    /\ UNCHANGED <<fifo01, fifo10, irq1, core0, resp, bus, g1, g0, exec_log, raw, device, timer>>

(***************************************************************************)
(* Bit level: tx_one, tx_zero, read_bit, ack_nack.                         *)
(***************************************************************************)
\* mutant of tx_one: the line is not released after the low pulse
tx_one_hold ==
    /\ \/ /\ core1.pc = "tx_one"
          /\ sio_set_low
          /\ bus' = Append(bus, BusOp("low", time_low1, NoLevel))
          /\ core1' = [core1 EXCEPT !.pc = "tx_one_high"]
          /\ device' = Capture(device, HIGH)
       \/ /\ core1.pc = "tx_one_high"
          /\ gpio_dir' = gpio_dir
          /\ bus' = Append(bus, BusOp("high", tx_one_btime, NoLevel))
          /\ core1' = Return1(core1, 0)
          /\ device' = device
    /\ UNCHANGED <<fifo01, fifo10, gpio_out, irq1, core0, resp, g1, g0, exec_log, raw, timer>>

tx_one ==
    /\ \/ /\ core1.pc = "tx_one"
          /\ sio_set_low
          /\ bus' = Append(bus, BusOp("low", time_low1, NoLevel))
          /\ core1' = [core1 EXCEPT !.pc = "tx_one_high"]
          /\ device' = Capture(device, HIGH)
       \/ /\ core1.pc = "tx_one_high"
          /\ sio_set_high
          /\ bus' = Append(bus, BusOp("high", tx_one_btime, NoLevel))
          /\ core1' = Return1(core1, 0)
          /\ device' = device
    /\ UNCHANGED <<fifo01, fifo10, gpio_out, irq1, core0, resp, g1, g0, exec_log, raw, timer>>

tx_zero ==
    /\ \/ /\ core1.pc = "tx_zero"
          /\ sio_set_low
          /\ bus' = Append(bus, BusOp("low", time_low0, NoLevel))
          /\ core1' = [core1 EXCEPT !.pc = "tx_zero_high"]
          /\ device' = Capture(device, LOW)
       \/ /\ core1.pc = "tx_zero_high"
          /\ sio_set_high
          /\ bus' = Append(bus, BusOp("high", tx_zero_btime, NoLevel))
          /\ core1' = Return1(core1, 0)
          /\ device' = device
    /\ UNCHANGED <<fifo01, fifo10, gpio_out, irq1, core0, resp, g1, g0, exec_log, raw, timer>>

\* mutant of read_bit: the line stays driven low through the recovery wait and
\* the sample, and is released only at the end
read_bit_sample_low ==
    /\ \/ /\ core1.pc = "read_bit"
          /\ sio_set_low
          /\ bus' = Append(bus, BusOp("low", time_rd, NoLevel))
          /\ core1' = [core1 EXCEPT !.pc = "read_bit_high"]
       \/ /\ core1.pc = "read_bit_high"
          /\ gpio_dir' = gpio_dir
          /\ bus' = Append(bus, BusOp("high", time_mrs, NoLevel))
          /\ core1' = [core1 EXCEPT !.pc = "read_bit_sample"]
       \/ /\ core1.pc = "read_bit_sample"
          /\ \E lvl \in {LOW, HIGH} :
                /\ gpio_dir' = gpio_dir
                /\ bus' = Append(bus, BusOp("sample", rd_btime, lvl))
                /\ core1' = [core1 EXCEPT !.pc = "read_bit_release", !.temp = lvl % 2]
       \/ /\ core1.pc = "read_bit_release"
          /\ sio_set_high
          /\ bus' = Append(bus, BusOp("high", 0, NoLevel))
          /\ core1' = Return1([core1 EXCEPT !.temp = 0], core1.temp)
    /\ UNCHANGED <<fifo01, fifo10, gpio_out, irq1, core0, resp, g1, g0, exec_log, raw, device, timer>>

read_bit ==
    /\ \/ /\ core1.pc = "read_bit"
          /\ sio_set_low
          /\ bus' = Append(bus, BusOp("low", time_rd, NoLevel))
          /\ core1' = [core1 EXCEPT !.pc = "read_bit_high"]
       \/ /\ core1.pc = "read_bit_high"
          /\ sio_set_high
          /\ bus' = Append(bus, BusOp("high", time_mrs, NoLevel))
          /\ core1' = [core1 EXCEPT !.pc = "read_bit_sample"]
       \/ /\ core1.pc = "read_bit_sample"
          /\ \E lvl \in {LOW, HIGH} :
                /\ sio_get_value(lvl)
                /\ bus' = Append(bus, BusOp("sample", rd_btime, lvl))
                /\ core1' = [core1 EXCEPT !.pc = "read_bit_release", !.temp = lvl % 2]
       \/ /\ core1.pc = "read_bit_release"
          /\ sio_set_high
          /\ bus' = Append(bus, BusOp("high", 0, NoLevel))
          /\ core1' = Return1([core1 EXCEPT !.temp = 0], core1.temp)
    /\ UNCHANGED <<fifo01, fifo10, gpio_out, irq1, core0, resp, g1, g0, exec_log, raw, device, timer>>

\* return read_bit() ? 0xFF : 0x00
\* mutant of AckNackOf: the bit read is returned as it is
AckNackOfBit(bit) == bit

AckNackOf(bit) == IF bit # 0 THEN 255 ELSE 0

ack_nack ==
    /\ \/ /\ core1.pc = "ack_nack"
          /\ core1' = Call1(core1, "read_bit", "ack_nack_ret")
       \/ /\ core1.pc = "ack_nack_ret"
          /\ core1' = Return1(core1, AckNackOf(core1.ret))
    /\ UNCHANGED <<fifo01, fifo10, hw, core0, resp, bus, g1, g0, exec_log, raw, device, timer>>

(***************************************************************************)
(* discovery_response: the reset / discovery handshake.                    *)
(***************************************************************************)
\* mutant of DiscoveryResult: the two results are exchanged
DiscoveryResultInverted(lvl) == IF lvl = 0 THEN 255 ELSE 0

\* temp = (sio_get_value() == 0) ? 0x00 : 0xFF
DiscoveryResult(lvl) == IF lvl = 0 THEN 0 ELSE 255

\* mutant of discovery_response: after the tMSDR wait it polls the line until
\* the device pulls it low
discovery_response_wait_low ==
    /\ \/ /\ core1.pc = "discovery_response"
          /\ sio_set_high
          /\ bus' = Append(bus, BusOp("high", 200, NoLevel))
          /\ core1' = [core1 EXCEPT !.pc = "discovery_reset"]
       \/ /\ core1.pc = "discovery_reset"
          /\ sio_set_low
          /\ bus' = Append(bus, BusOp("low", 150, NoLevel))
          /\ core1' = [core1 EXCEPT !.pc = "discovery_rrt"]
       \/ /\ core1.pc = "discovery_rrt"
          /\ sio_set_high
          /\ bus' = Append(bus, BusOp("high", 100, NoLevel))
          /\ core1' = [core1 EXCEPT !.pc = "discovery_drr"]
       \/ /\ core1.pc = "discovery_drr"
          /\ sio_set_low
          /\ bus' = Append(bus, BusOp("low", 1, NoLevel))
          /\ core1' = [core1 EXCEPT !.pc = "discovery_msdr"]
       \/ /\ core1.pc = "discovery_msdr"
          /\ sio_set_high
          /\ bus' = Append(bus, BusOp("high", 3, NoLevel))
          /\ core1' = [core1 EXCEPT !.pc = "discovery_sample"]
       \/ /\ core1.pc = "discovery_sample"
          /\ \E lvl \in {LOW, HIGH} :
                /\ sio_get_value(lvl)
                /\ IF lvl = LOW
                   THEN /\ bus' = Append(bus, BusOp("sample", 150, lvl))
                        /\ core1' = Return1(core1, DiscoveryResult(lvl))
                   ELSE /\ bus' = bus
                        /\ core1' = [core1 EXCEPT !.pc = "discovery_poll"]
       \/ /\ core1.pc = "discovery_poll"
          /\ gpio_dir' = gpio_dir
          /\ bus' = bus
          /\ core1' = [core1 EXCEPT !.pc = "discovery_sample"]
    /\ UNCHANGED <<fifo01, fifo10, gpio_out, irq1, core0, resp, g1, g0, exec_log, raw, device, timer>>

\* mutant of discovery_response: the line is sampled while it is still driven
\* low for tDRR, and released afterwards
discovery_response_sample_first ==
    /\ \/ /\ core1.pc = "discovery_response"
          /\ sio_set_high
          /\ bus' = Append(bus, BusOp("high", 200, NoLevel))
          /\ core1' = [core1 EXCEPT !.pc = "discovery_reset"]
       \/ /\ core1.pc = "discovery_reset"
          /\ sio_set_low
          /\ bus' = Append(bus, BusOp("low", 150, NoLevel))
          /\ core1' = [core1 EXCEPT !.pc = "discovery_rrt"]
       \/ /\ core1.pc = "discovery_rrt"
          /\ sio_set_high
          /\ bus' = Append(bus, BusOp("high", 100, NoLevel))
          /\ core1' = [core1 EXCEPT !.pc = "discovery_drr"]
       \/ /\ core1.pc = "discovery_drr"
          /\ sio_set_low
          /\ bus' = Append(bus, BusOp("low", 1, NoLevel))
          /\ core1' = [core1 EXCEPT !.pc = "discovery_msdr"]
       \/ /\ core1.pc = "discovery_msdr"
          /\ \E lvl \in {LOW, HIGH} :
                /\ gpio_dir' = gpio_dir
                /\ bus' = Append(bus, BusOp("sample", 3, lvl))
                /\ core1' = [core1 EXCEPT !.pc = "discovery_sample", !.ret = DiscoveryResult(lvl)]
       \/ /\ core1.pc = "discovery_sample"
          /\ sio_set_high
          /\ bus' = Append(bus, BusOp("high", 150, NoLevel))
          /\ core1' = Return1(core1, core1.ret)
    /\ UNCHANGED <<fifo01, fifo10, gpio_out, irq1, core0, resp, g1, g0, exec_log, raw, device, timer>>

discovery_response ==
    /\ \/ /\ core1.pc = "discovery_response"
          /\ sio_set_high
          /\ bus' = Append(bus, BusOp("high", 200, NoLevel))
          /\ core1' = [core1 EXCEPT !.pc = "discovery_reset"]
       \/ /\ core1.pc = "discovery_reset"
          /\ sio_set_low
          /\ bus' = Append(bus, BusOp("low", 150, NoLevel))
          /\ core1' = [core1 EXCEPT !.pc = "discovery_rrt"]
       \/ /\ core1.pc = "discovery_rrt"
          /\ sio_set_high
          /\ bus' = Append(bus, BusOp("high", 100, NoLevel))
          /\ core1' = [core1 EXCEPT !.pc = "discovery_drr"]
       \/ /\ core1.pc = "discovery_drr"
          /\ sio_set_low
          /\ bus' = Append(bus, BusOp("low", 1, NoLevel))
          /\ core1' = [core1 EXCEPT !.pc = "discovery_msdr"]
       \/ /\ core1.pc = "discovery_msdr"
          /\ sio_set_high
          /\ bus' = Append(bus, BusOp("high", 3, NoLevel))
          /\ core1' = [core1 EXCEPT !.pc = "discovery_sample"]
       \/ /\ core1.pc = "discovery_sample"
          /\ \E lvl \in {LOW, HIGH} :
                /\ sio_get_value(lvl)
                /\ bus' = Append(bus, BusOp("sample", 150, lvl))
                /\ core1' = Return1(core1, DiscoveryResult(lvl))
    /\ UNCHANGED <<fifo01, fifo10, gpio_out, irq1, core0, resp, g1, g0, exec_log, raw, device, timer>>

(***************************************************************************)
(* Byte level: tx_byte, read_byte, rx_byte.                                *)
(***************************************************************************)
\* mutant of MsbSet: the least significant bit is tested
LsbSet(b) == b % 2 = 1

\* data_byte & 0x80
MsbSet(b) == (b \div 128) % 2 = 1

tx_byte ==
    /\ \/ /\ core1.pc = "tx_byte"
          /\ core1.ii < 8
          /\ core1' = Call1(core1, IF MsbSet(core1.data_byte) THEN "tx_one" ELSE "tx_zero",
                            "tx_byte_shift")
       \/ /\ core1.pc = "tx_byte_shift"
          /\ core1' = [core1 EXCEPT !.pc = "tx_byte",
                                    !.data_byte = U8(Shl(core1.data_byte, 1)),
                                    !.ii = core1.ii + 1]
       \/ /\ core1.pc = "tx_byte"
          /\ ~(core1.ii < 8)
          /\ core1' = Call1([core1 EXCEPT !.data_byte = 0, !.ii = 0],
                            "ack_nack", "tx_byte_ret")
       \/ /\ core1.pc = "tx_byte_ret"
          /\ core1' = Return1(core1, core1.ret)
    /\ UNCHANGED <<fifo01, fifo10, hw, core0, resp, bus, g1, g0, exec_log, raw, device, timer>>

\* mutant of Accumulate: the bit read enters at the top and the byte moves down
AccumulateLsbFirst(data_byte, temp) == U8(BitOr(data_byte \div 2, Shl(temp, 7)))

\* mutant of Accumulate: the byte is not moved up before the bit read enters
AccumulateNoShift(data_byte, temp) == U8(BitOr(data_byte, temp))

\* data_byte = (data_byte << 1) | temp, in a uint8_t
Accumulate(data_byte, temp) == U8(BitOr(Shl(data_byte, 1), temp))

read_byte ==
    /\ \/ /\ core1.pc = "read_byte"
          /\ core1.ii < 8
          /\ core1' = Call1(core1, "read_bit", "read_byte_acc")
       \/ /\ core1.pc = "read_byte_acc"
          /\ core1' = [core1 EXCEPT !.pc = "read_byte",
                                    !.data_byte = Accumulate(core1.data_byte, core1.ret),
                                    !.ii = core1.ii + 1]
       \/ /\ core1.pc = "read_byte"
          /\ ~(core1.ii < 8)
          /\ core1' = Call1(core1, IF core1.rx_ack # 0 THEN "tx_one" ELSE "tx_zero",
                            "read_byte_ret")
       \/ /\ core1.pc = "read_byte_ret"
          /\ core1' = Return1([core1 EXCEPT !.data_byte = 0, !.ii = 0, !.rx_ack = 0],
                              core1.data_byte)
    /\ UNCHANGED <<fifo01, fifo10, hw, core0, resp, bus, g1, g0, exec_log, raw, device, timer>>

\* rx_byte(ack) is read_byte(ack)
rx_byte ==
    /\ core1.pc = "rx_byte"
    /\ core1' = [core1 EXCEPT !.pc = "read_byte"]
    /\ UNCHANGED <<fifo01, fifo10, hw, core0, resp, bus, g1, g0, exec_log, raw, device, timer>>

(***************************************************************************)
(* core1_entry: the executor loop.                                         *)
(***************************************************************************)
\* multicore_fifo_push_blocking / multicore_fifo_pop_blocking block while the
\* FIFO is full / empty
CanPush(fifo) == Len(fifo) < FifoDepth

CanPop(fifo) == Len(fifo) > 0

\* mutant of Primitive: only the two low bits of the opcode are decoded
PrimitiveLowBits(cmd) ==
    CASE cmd % 4 = TX_BYTE -> "tx_byte"
      [] cmd % 4 = DISCOVERY -> "discovery_response"
      [] cmd % 4 = RX_BYTE -> "rx_byte"
      [] OTHER -> "default"

\* the primitive core1_entry's switch selects for an opcode
Primitive(cmd) ==
    CASE cmd = TX_BYTE -> "tx_byte"
      [] cmd = DISCOVERY -> "discovery_response"
      [] cmd = RX_BYTE -> "rx_byte"
      [] OTHER -> "default"

\* uint32_t item = multicore_fifo_pop_blocking(); cmd = (item >> 24) & 0xFF; data = item & 0xFF
core1_entry_pop ==
    /\ core1.pc = "c1_pop"
    /\ CanPop(fifo01)
    /\ fifo01' = Tail(fifo01)
    /\ core1' = [core1 EXCEPT !.pc = "c1_disable",
                              !.item = Head(fifo01).w,
                              !.cmd = OpcodeOf(Head(fifo01).w),
                              !.data = PayloadOf(Head(fifo01).w),
                              !.tag = Head(fifo01).tag]
    /\ UNCHANGED <<fifo10, hw, core0, resp, bus, g1, g0, exec_log, raw, device, timer>>

\* uint32_t irq_status = save_and_disable_interrupts()
save_and_disable_interrupts ==
    /\ core1.pc = "c1_disable"
    /\ irq1' = FALSE
    /\ core1' = [core1 EXCEPT !.pc = "c1_switch", !.irq_status = irq1]
    /\ g1' = [g1 EXCEPT !.ndisable = g1.ndisable + 1]
    /\ UNCHANGED <<fifo01, fifo10, gpio_dir, gpio_out, core0, resp, bus, g0, exec_log, raw, device, timer>>

\* mutant of core1_entry_switch: case TX_BYTE lacks its break and falls
\* through into case DISCOVERY
core1_entry_switch_fallthrough ==
    /\ \/ /\ core1.pc = "c1_switch"
          /\ \/ /\ Primitive(core1.cmd) = "tx_byte"
                /\ core1' = Call1([core1 EXCEPT !.data_byte = core1.data, !.ii = 0],
                                  "tx_byte", "c1_fall")
                /\ g1' = [g1 EXCEPT !.nprim = g1.nprim + 1]
             \/ /\ Primitive(core1.cmd) = "discovery_response"
                /\ core1' = Call1(core1, "discovery_response", "c1_ack")
                /\ g1' = [g1 EXCEPT !.nprim = g1.nprim + 1]
             \/ /\ Primitive(core1.cmd) = "rx_byte"
                /\ core1' = Call1([core1 EXCEPT !.rx_ack = core1.data, !.data_byte = 0,
                                                !.ii = 0],
                                  "rx_byte", "c1_ack")
                /\ g1' = [g1 EXCEPT !.nprim = g1.nprim + 1]
             \/ /\ Primitive(core1.cmd) = "default"
                /\ core1' = [core1 EXCEPT !.pc = "c1_restore", !.ack = UNKNOWN_CMD_ACK]
                /\ g1' = g1
       \/ /\ core1.pc = "c1_fall"
          /\ core1' = Call1(core1, "discovery_response", "c1_ack")
          /\ g1' = [g1 EXCEPT !.nprim = g1.nprim + 1]
    /\ UNCHANGED <<fifo01, fifo10, hw, core0, resp, bus, g0, exec_log, raw, device, timer>>

\* mutant of core1_entry_switch: the default branch pushes its result at once,
\* skipping restore_interrupts
core1_entry_switch_skip_restore ==
    /\ core1.pc = "c1_switch"
    /\ \/ /\ Primitive(core1.cmd) = "tx_byte"
          /\ core1' = Call1([core1 EXCEPT !.data_byte = core1.data, !.ii = 0],
                            "tx_byte", "c1_ack")
          /\ g1' = [g1 EXCEPT !.nprim = g1.nprim + 1]
       \/ /\ Primitive(core1.cmd) = "discovery_response"
          /\ core1' = Call1(core1, "discovery_response", "c1_ack")
          /\ g1' = [g1 EXCEPT !.nprim = g1.nprim + 1]
       \/ /\ Primitive(core1.cmd) = "rx_byte"
          /\ core1' = Call1([core1 EXCEPT !.rx_ack = core1.data, !.data_byte = 0, !.ii = 0],
                            "rx_byte", "c1_ack")
          /\ g1' = [g1 EXCEPT !.nprim = g1.nprim + 1]
       \/ /\ Primitive(core1.cmd) = "default"
          /\ core1' = [core1 EXCEPT !.pc = "c1_push", !.ack = UNKNOWN_CMD_ACK]
          /\ g1' = g1
    /\ UNCHANGED <<fifo01, fifo10, hw, core0, resp, bus, g0, exec_log, raw, device, timer>>

\* switch (cmd) { case TX_BYTE: ... case DISCOVERY: ... case RX_BYTE: ... default: ... }
core1_entry_switch ==
    /\ core1.pc = "c1_switch"
    /\ \/ /\ Primitive(core1.cmd) = "tx_byte"
          /\ core1' = Call1([core1 EXCEPT !.data_byte = core1.data, !.ii = 0],
                            "tx_byte", "c1_ack")
          /\ g1' = [g1 EXCEPT !.nprim = g1.nprim + 1]
       \/ /\ Primitive(core1.cmd) = "discovery_response"
          /\ core1' = Call1(core1, "discovery_response", "c1_ack")
          /\ g1' = [g1 EXCEPT !.nprim = g1.nprim + 1]
       \/ /\ Primitive(core1.cmd) = "rx_byte"
          /\ core1' = Call1([core1 EXCEPT !.rx_ack = core1.data, !.data_byte = 0, !.ii = 0],
                            "rx_byte", "c1_ack")
          /\ g1' = [g1 EXCEPT !.nprim = g1.nprim + 1]
       \/ /\ Primitive(core1.cmd) = "default"
          /\ core1' = [core1 EXCEPT !.pc = "c1_restore", !.ack = UNKNOWN_CMD_ACK]
          /\ g1' = g1
    /\ UNCHANGED <<fifo01, fifo10, hw, core0, resp, bus, g0, exec_log, raw, device, timer>>

\* mutant of core1_entry_ack: a NACK result leaves the switch through an early
\* exit that pushes the result without restore_interrupts
core1_entry_ack_nack_exit ==
    /\ core1.pc = "c1_ack"
    /\ core1' = [core1 EXCEPT !.pc = IF U8(core1.ret) = 255 THEN "c1_push" ELSE "c1_restore",
                              !.ack = U8(core1.ret), !.ret = 0]
    /\ UNCHANGED <<fifo01, fifo10, hw, core0, resp, bus, g1, g0, exec_log, raw, device, timer>>

\* ack = tx_byte(data) / discovery_response() / rx_byte(data); break
core1_entry_ack ==
    /\ core1.pc = "c1_ack"
    /\ core1' = [core1 EXCEPT !.pc = "c1_restore", !.ack = U8(core1.ret), !.ret = 0]
    /\ UNCHANGED <<fifo01, fifo10, hw, core0, resp, bus, g1, g0, exec_log, raw, device, timer>>

\* restore_interrupts(irq_status)
restore_interrupts ==
    /\ core1.pc = "c1_restore"
    /\ irq1' = core1.irq_status
    /\ core1' = [core1 EXCEPT !.pc = "c1_push"]
    /\ g1' = [g1 EXCEPT !.nrestore = g1.nrestore + 1]
    /\ UNCHANGED <<fifo01, fifo10, gpio_dir, gpio_out, core0, resp, bus, g0, exec_log, raw, device, timer>>

\* ghost: the request served under a tag and the result computed for it
\* (tag 0: a request of a session operation, not tracked)
Served(log, c) ==
    IF c.tag = 0 THEN log
    ELSE [log EXCEPT ![c.tag] = [item |-> c.item, ack |-> c.ack, n |-> log[c.tag].n + 1]]

\* mutant of core1_entry_push: the result is pushed twice
core1_entry_push_twice ==
    /\ core1.pc = "c1_push"
    /\ Len(fifo10) + 2 <= FifoDepth
    /\ fifo10' = fifo10 \o <<[w |-> Word(core1.ack), tag |-> core1.tag],
                             [w |-> Word(core1.ack), tag |-> core1.tag]>>
    /\ exec_log' = Served(exec_log, core1)
    /\ core1' = Core1Blank
    /\ bus' = <<>>
    /\ g1' = G1Blank
    /\ UNCHANGED <<fifo01, hw, core0, resp, g0, raw, device, timer>>

\* multicore_fifo_push_blocking(ack); the loop body ends and its locals die
core1_entry_push ==
    /\ core1.pc = "c1_push"
    /\ CanPush(fifo10)
    /\ fifo10' = Append(fifo10, [w |-> Word(core1.ack), tag |-> core1.tag])
    /\ exec_log' = Served(exec_log, core1)
    /\ core1' = Core1Blank
    /\ bus' = <<>>
    /\ g1' = G1Blank
    /\ UNCHANGED <<fifo01, hw, core0, resp, g0, raw, device, timer>>

core1_entry ==
    \/ init_open_drain_swi_pin
    \/ core1_entry_pop
    \/ save_and_disable_interrupts
    \/ core1_entry_switch
    \/ core1_entry_ack
    \/ restore_interrupts
    \/ core1_entry_push

Primitives ==
    \/ tx_one
    \/ tx_zero
    \/ read_bit
    \/ ack_nack
    \/ discovery_response
    \/ tx_byte
    \/ read_byte
    \/ rx_byte

(***************************************************************************)
(* Core 0: call / return, and send_cmd.                                    *)
(***************************************************************************)
Call0(c, fn, back) == [c EXCEPT !.pc = fn, !.stack = <<back>> \o c.stack]

Return0(c, v) == [c EXCEPT !.pc = Head(c.stack), !.stack = Tail(c.stack), !.ret = v]

\* a call send_cmd(cmd, data): both parameters are uint8_t
CallSendCmd(c, cmd, data, back) ==
    Call0([c EXCEPT !.sc_cmd = U8(cmd), !.sc_data = U8(data)], "send_cmd", back)

\* core 0 waiting for the next command line: every local is dead
Core0Blank ==
    [pc |-> "idle", stack |-> <<>>, ret |-> 0, sc_cmd |-> 0, sc_data |-> 0,
     command |-> "", data_val |-> 0, dev_addr |-> 0, start_addr |-> 0, block_len |-> 0,
     read_buffer |-> <<>>, result |-> 0,
     mf_dev |-> 0, id |-> 0,
     la_dev |-> 0, la_addr |-> 0,
     re_dev |-> 0, re_addr |-> 0,
     vr_dev |-> 0, vr_addr |-> 0, vr_data |-> <<>>,
     rb_dev |-> 0, rb_addr |-> 0, rb_len |-> 0, rb_i |-> 0]

\* ghost of core 0: the tag of the current raw call and of the result it got, the
\* requests pushed and not yet answered, whether the current command pushed a
\* request, the results of the reads of the current verified_read, the
\* addresses / results of the verified_read calls of the current read_block,
\* the result of its discovery, and the trace of the operation in progress (the
\* current read_eeprom, or else the current command): the requests pushed and
\* the stop-condition waits made, in order, and the results popped
G0Blank ==
    [tag |-> 0, rtag |-> 0, outstanding |-> 0, sent |-> FALSE,
     vr_reads |-> <<>>, vr_calls |-> <<>>, vr_results |-> <<>>, disc |-> <<>>,
     reqs |-> <<>>, acks |-> <<>>, counting |-> FALSE, nreq |-> 0]

\* ghost: a request as the trace of core 0 records it
Request(cmd, data) == [kind |-> "request", cmd |-> cmd, data |-> data]

\* ghost: a stop-condition wait as the trace of core 0 records it
StopWait == [kind |-> "stop_con", cmd |-> 0, data |-> 0]

\* mutant of send_cmd: the request is pushed and the call returns at once,
\* without waiting for the result
send_cmd_no_wait ==
    /\ core0.pc = "send_cmd"
    /\ CanPush(fifo01)
    /\ fifo01' = Append(fifo01, [w |-> Pack(core0.sc_cmd, core0.sc_data), tag |-> g0.tag])
    /\ fifo10' = fifo10
    /\ core0' = Return0([core0 EXCEPT !.sc_cmd = 0, !.sc_data = 0], 0)
    /\ g0' = [g0 EXCEPT !.outstanding = g0.outstanding + 1, !.sent = TRUE,
                        !.nreq = IF g0.counting THEN g0.nreq + 1 ELSE g0.nreq,
                        !.reqs = Append(g0.reqs, Request(core0.sc_cmd, core0.sc_data))]
    /\ UNCHANGED <<hw, core1, resp, bus, g1, exec_log, raw, device, timer>>

\* multicore_fifo_push_blocking((cmd << 24) | data);
\* return (uint8_t)multicore_fifo_pop_blocking();
send_cmd ==
    /\ \/ /\ core0.pc = "send_cmd"
          /\ CanPush(fifo01)
          /\ fifo01' = Append(fifo01, [w |-> Pack(core0.sc_cmd, core0.sc_data),
                                       tag |-> g0.tag])
          /\ fifo10' = fifo10
          /\ core0' = [core0 EXCEPT !.pc = "send_cmd_pop"]
          /\ g0' = [g0 EXCEPT !.outstanding = g0.outstanding + 1, !.sent = TRUE,
                        !.nreq = IF g0.counting THEN g0.nreq + 1 ELSE g0.nreq,
                              !.reqs = Append(g0.reqs,
                                              Request(core0.sc_cmd, core0.sc_data))]
       \/ /\ core0.pc = "send_cmd_pop"
          /\ CanPop(fifo10)
          /\ fifo10' = Tail(fifo10)
          /\ fifo01' = fifo01
          /\ core0' = Return0([core0 EXCEPT !.sc_cmd = 0, !.sc_data = 0],
                              WordLow8(Head(fifo10).w))
          /\ g0' = [g0 EXCEPT !.outstanding = g0.outstanding - 1,
                              !.rtag = Head(fifo10).tag,
                              !.acks = Append(g0.acks, WordLow8(Head(fifo10).w))]
    /\ UNCHANGED <<hw, core1, resp, bus, g1, exec_log, raw, device, timer>>

(***************************************************************************)
(* The raw-request harness: MaxReqs sequential calls of send_cmd with      *)
(* arbitrary opcode bytes, the unknown ones included.                      *)
(***************************************************************************)
RawRequests ==
    {<<0, 0>>, <<TX_BYTE, 165>>, <<TX_BYTE, 0>>, <<DISCOVERY, 0>>,
     <<RX_BYTE, SEND_ACK>>, <<RX_BYTE, SEND_NACK>>, <<4, 7>>, <<127, 255>>}

RawCall ==
    /\ core0.pc = "idle"
    /\ raw.n < MaxReqs
    /\ \E rq \in RawRequests :
          /\ raw' = [raw EXCEPT !.n = raw.n + 1,
                                !.sent = Append(raw.sent, [cmd |-> rq[1], data |-> rq[2]])]
          /\ core0' = CallSendCmd(core0, rq[1], rq[2], "raw_ret")
    /\ g0' = [g0 EXCEPT !.tag = raw.n + 1]
    /\ UNCHANGED <<fifo01, fifo10, hw, core1, resp, bus, g1, exec_log, device, timer>>

RawReturn ==
    /\ core0.pc = "raw_ret"
    /\ raw' = [raw EXCEPT !.got = Append(raw.got, [ack |-> core0.ret, tag |-> g0.rtag])]
    /\ core0' = [core0 EXCEPT !.pc = "idle", !.ret = 0]
    /\ UNCHANGED <<fifo01, fifo10, hw, core1, resp, bus, g1, g0, exec_log, device, timer>>

(***************************************************************************)
(* Initial state: main has launched core 1, which has not run yet.  The    *)
(* device on the line is an EEPROM unless a test device is connected.      *)
(***************************************************************************)
\* PICO2 selects the platform when the program is built
Platforms == {"pico", "pico2"}

Timer(platform) == [platform |-> platform, us |-> 0, count |-> Word(0), waited |-> 0]

Started(mode, platform) ==
    /\ fifo01 = <<>>
    /\ fifo10 = <<>>
    /\ gpio_dir = "in"
    /\ gpio_out = 0
    /\ irq1 = TRUE
    /\ core1 = [Core1Blank EXCEPT !.pc = "c1_init"]
    /\ core0 = Core0Blank
    /\ resp = [status |-> "", command |-> "", text |-> "", value |-> 0, data |-> <<>>]
    /\ bus = <<>>
    /\ g1 = G1Blank
    /\ g0 = G0Blank
    /\ exec_log = [t \in 1 .. MaxReqs |-> [item |-> Word(0), ack |-> 0, n |-> 0]]
    /\ raw = [n |-> 0, sent |-> <<>>, got |-> <<>>]
    /\ device = Device(mode)
    /\ timer = Timer(platform)

Launched(mode) == Started(mode, "pico")

Init == Launched("eeprom")

NextRaw ==
    \/ RawCall
    \/ RawReturn
    \/ send_cmd
    \/ core1_entry
    \/ Primitives

SpecRaw == Init /\ [][NextRaw]_vars

(***************************************************************************)
(* Session operations (core 0).                                            *)
(***************************************************************************)
\* stop_con(): soft_delay_us(500) on core 0, no line operation
\* mutant of stop_con: core 0 itself releases the line for the stop condition
stop_con_release ==
    /\ core0.pc = "stop_con"
    /\ core0' = Return0(core0, core0.ret)
    /\ g0' = [g0 EXCEPT !.reqs = Append(g0.reqs, StopWait)]
    /\ gpio_dir' = "in"
    /\ bus' = Append(bus, BusOp("high", 500, NoLevel))
    /\ UNCHANGED <<fifo01, fifo10, gpio_out, irq1, core1, resp, g1, exec_log, raw, device, timer>>

stop_con ==
    /\ core0.pc = "stop_con"
    /\ core0' = Return0(core0, core0.ret)
    /\ g0' = [g0 EXCEPT !.reqs = Append(g0.reqs, StopWait)]
    /\ UNCHANGED <<fifo01, fifo10, hw, core1, resp, bus, g1, exec_log, raw, device, timer>>

\* if (data_addr > 128) return -1
LoadAddressOutOfRange(data_addr) == data_addr > EEPROM_LIMIT

\* mutant of AddressingByte: the intent bit is left out
AddressingByteNoIntent(dev_addr, rw) == BitOr(OPCODE_EEPROM_ACCESS, dev_addr)

\* OPCODE_EEPROM_ACCESS | dev_addr | rw: the byte that addresses the device, with
\* write intent (rw = 0, load_address) or read intent (rw = RW_BIT, read_eeprom)
AddressingByte(dev_addr, rw) == BitOr(BitOr(OPCODE_EEPROM_ACCESS, dev_addr), rw)

\* mutant of Nack: the result of the request is not tested
NackNever(ack) == FALSE

\* if (send_cmd(...)) return ...: any non-zero result is a NACK
Nack(ack) == ack # 0

load_address ==
    /\ \/ /\ core0.pc = "load_address"
          /\ core0' =
                IF LoadAddressOutOfRange(core0.la_addr)
                THEN Return0([core0 EXCEPT !.la_dev = 0, !.la_addr = 0], -1)
                ELSE CallSendCmd(core0, TX_BYTE, AddressingByte(core0.la_dev, 0),
                                 "load_address_dev")
       \/ /\ core0.pc = "load_address_dev"
          /\ core0' =
                IF Nack(core0.ret)
                THEN Return0([core0 EXCEPT !.la_dev = 0, !.la_addr = 0], -2)
                ELSE CallSendCmd(core0, TX_BYTE, core0.la_addr, "load_address_addr")
       \/ /\ core0.pc = "load_address_addr"
          /\ core0' =
                IF Nack(core0.ret)
                THEN Return0([core0 EXCEPT !.la_dev = 0, !.la_addr = 0], -3)
                ELSE Return0([core0 EXCEPT !.la_dev = 0, !.la_addr = 0], 1)
    /\ UNCHANGED <<fifo01, fifo10, hw, core1, resp, bus, g1, g0, exec_log, raw, device, timer>>

\* mutant of LoadError: the codes of load_address are moved by 3 only
LoadErrorBy3(res) == res - 3

\* if (res < 0) return res - 5: the codes of load_address moved below -5
LoadError(res) == res - 5

read_eeprom ==
    /\ \/ /\ core0.pc = "read_eeprom"
          /\ core0' = Call0([core0 EXCEPT !.la_dev = core0.re_dev,
                                          !.la_addr = core0.re_addr],
                            "load_address", "read_eeprom_loaded")
          /\ g0' = [g0 EXCEPT !.reqs = <<>>, !.acks = <<>>]
       \/ /\ core0.pc = "read_eeprom_loaded"
          /\ core0' =
                IF core0.ret < 0
                THEN Return0([core0 EXCEPT !.re_dev = 0, !.re_addr = 0],
                             LoadError(core0.ret))
                ELSE Call0([core0 EXCEPT !.ret = 0], "stop_con", "read_eeprom_readdr")
          /\ g0' = g0
       \/ /\ core0.pc = "read_eeprom_readdr"
          /\ core0' = CallSendCmd(core0, TX_BYTE, AddressingByte(core0.re_dev, RW_BIT),
                                  "read_eeprom_addressed")
          /\ g0' = g0
       \/ /\ core0.pc = "read_eeprom_addressed"
          /\ core0' =
                IF Nack(core0.ret)
                THEN Return0([core0 EXCEPT !.re_dev = 0, !.re_addr = 0], -5)
                ELSE CallSendCmd(core0, RX_BYTE, SEND_NACK, "read_eeprom_data")
          /\ g0' = g0
       \/ /\ core0.pc = "read_eeprom_data"
          /\ core0' = Call0(core0, "stop_con", "read_eeprom_ret")
          /\ g0' = g0
       \/ /\ core0.pc = "read_eeprom_ret"
          /\ core0' = Return0([core0 EXCEPT !.re_dev = 0, !.re_addr = 0], core0.ret)
          /\ g0' = g0
    /\ UNCHANGED <<fifo01, fifo10, hw, core1, resp, bus, g1, exec_log, raw, device, timer>>

\* if (data[0] == data[1]) return data[0];
\* mutant of VerifiedReadAgree: the first read is returned without comparison
VerifiedReadAgreeAlways(d0, d1) == d0 = d0

VerifiedReadAgree(d0, d1) == d0 = d1

\* mutant of VerifiedReadVote: the third read is compared with the second only,
\* and the first read is returned when they differ
VerifiedReadVoteFirst(d0, d1, d2) ==
    IF d1 = d2 THEN d1 ELSE d0

\* if (data[1] == data[2]) return data[1]; else if (data[2] == data[0]) return data[2];
\* return -1;
VerifiedReadVote(d0, d1, d2) ==
    IF d1 = d2 THEN d1
    ELSE IF d2 = d0 THEN d2
    ELSE -1

CallReadEeprom(c, back) ==
    Call0([c EXCEPT !.re_dev = c.vr_dev, !.re_addr = c.vr_addr, !.ret = 0],
          "read_eeprom", back)

VerifiedReadDone(c, v) ==
    Return0([c EXCEPT !.vr_dev = 0, !.vr_addr = 0, !.vr_data = <<>>], v)

\* mutant of verified_read: when the three reads disagree a fourth one is made
verified_read_retry ==
    /\ \/ /\ core0.pc = "verified_read"
          /\ core0' = CallReadEeprom(core0, "verified_read_0")
       \/ /\ core0.pc = "verified_read_0"
          /\ core0' = CallReadEeprom([core0 EXCEPT !.vr_data = <<core0.ret>>],
                                     "verified_read_1")
       \/ /\ core0.pc = "verified_read_1"
          /\ core0' =
                IF VerifiedReadAgree(core0.vr_data[1], core0.ret)
                THEN VerifiedReadDone(core0, core0.vr_data[1])
                ELSE CallReadEeprom([core0 EXCEPT !.vr_data = Append(core0.vr_data, core0.ret)],
                                    "verified_read_2")
       \/ /\ core0.pc = "verified_read_2"
          /\ core0' =
                IF VerifiedReadVote(core0.vr_data[1], core0.vr_data[2], core0.ret) >= 0
                THEN VerifiedReadDone(core0,
                         VerifiedReadVote(core0.vr_data[1], core0.vr_data[2], core0.ret))
                ELSE CallReadEeprom(core0, "verified_read_3")
       \/ /\ core0.pc = "verified_read_3"
          /\ core0' = VerifiedReadDone(core0,
                           VerifiedReadVote(core0.vr_data[1], core0.vr_data[2], core0.ret))
    /\ g0' = IF core0.pc = "verified_read"
             THEN [g0 EXCEPT !.vr_reads = <<>>]
             ELSE [g0 EXCEPT !.vr_reads = Append(g0.vr_reads, core0.ret)]
    /\ UNCHANGED <<fifo01, fifo10, hw, core1, resp, bus, g1, exec_log, raw, device, timer>>

verified_read ==
    /\ \/ /\ core0.pc = "verified_read"
          /\ core0' = CallReadEeprom(core0, "verified_read_0")
       \/ /\ core0.pc = "verified_read_0"
          /\ core0' = CallReadEeprom([core0 EXCEPT !.vr_data = <<core0.ret>>],
                                     "verified_read_1")
       \/ /\ core0.pc = "verified_read_1"
          /\ core0' =
                IF VerifiedReadAgree(core0.vr_data[1], core0.ret)
                THEN VerifiedReadDone(core0, core0.vr_data[1])
                ELSE CallReadEeprom([core0 EXCEPT !.vr_data = Append(core0.vr_data, core0.ret)],
                                    "verified_read_2")
       \/ /\ core0.pc = "verified_read_2"
          /\ core0' = VerifiedReadDone(core0,
                           VerifiedReadVote(core0.vr_data[1], core0.vr_data[2], core0.ret))
    /\ g0' = IF core0.pc = "verified_read"
             THEN [g0 EXCEPT !.vr_reads = <<>>]
             ELSE [g0 EXCEPT !.vr_reads = Append(g0.vr_reads, core0.ret)]
    /\ UNCHANGED <<fifo01, fifo10, hw, core1, resp, bus, g1, exec_log, raw, device, timer>>

\* mutant of BlockOutOfRange: the sum is computed in a uint8_t and wraps
BlockOutOfRangeWrapped(data_addr, len) == U8(data_addr + len) > EEPROM_LIMIT

\* if (data_addr + len > 128) return -1: the sum is an int, it does not wrap
BlockOutOfRange(data_addr, len) == data_addr + len > EEPROM_LIMIT

\* mutant of BlockAddr: the loop index is not added to the start address
BlockAddrFixed(data_addr, i) == U8(data_addr)

\* verified_read(dev_addr, data_addr + i): the address parameter is a uint8_t
\* mutant of BlockAddr: the loop reads one address ahead
BlockAddrAhead(data_addr, i) == U8(data_addr + i + 1)

BlockAddr(data_addr, i) == U8(data_addr + i)

\* mutant of ReadFailed: the result of verified_read is not tested
ReadFailedIgnored(res) == FALSE

\* if (res < 0) return -3
ReadFailed(res) == res < 0

ReadBlockDone(c, v) ==
    Return0([c EXCEPT !.rb_dev = 0, !.rb_addr = 0, !.rb_len = 0, !.rb_i = 0], v)

read_block ==
    /\ \/ /\ core0.pc = "read_block"
          /\ core0' =
                IF BlockOutOfRange(core0.rb_addr, core0.rb_len)
                THEN ReadBlockDone(core0, -1)
                ELSE CallSendCmd(core0, DISCOVERY, 0, "read_block_disc")
          /\ g0' = g0
       \/ /\ core0.pc = "read_block_disc"
          /\ core0' =
                IF Nack(core0.ret)
                THEN ReadBlockDone(core0, -2)
                ELSE [core0 EXCEPT !.pc = "read_block_loop", !.rb_i = 0, !.ret = 0]
          /\ g0' = [g0 EXCEPT !.disc = Append(g0.disc, core0.ret)]
       \/ /\ core0.pc = "read_block_loop"
          /\ core0' =
                IF core0.rb_i < core0.rb_len
                THEN Call0([core0 EXCEPT !.vr_dev = core0.rb_dev,
                                         !.vr_addr = BlockAddr(core0.rb_addr, core0.rb_i)],
                           "verified_read", "read_block_res")
                ELSE ReadBlockDone(core0, 1)
          /\ g0' = IF core0.rb_i < core0.rb_len
                   THEN [g0 EXCEPT !.vr_calls = Append(g0.vr_calls,
                                                       BlockAddr(core0.rb_addr, core0.rb_i))]
                   ELSE g0
       \/ /\ core0.pc = "read_block_res"
          /\ core0' =
                IF ReadFailed(core0.ret)
                THEN ReadBlockDone(core0, -3)
                ELSE [core0 EXCEPT !.pc = "read_block_loop",
                                   !.read_buffer[core0.rb_i] = U8(core0.ret),
                                   !.rb_i = core0.rb_i + 1,
                                   !.ret = 0]
          /\ g0' = [g0 EXCEPT !.vr_results = Append(g0.vr_results, core0.ret)]
    /\ UNCHANGED <<fifo01, fifo10, hw, core1, resp, bus, g1, exec_log, raw, device, timer>>

\* mutant of MfrIdOr: the byte received is not shifted to its place
MfrIdOrUnshifted(id, byte, shift) == BitOr(id, byte)

\* id = id | (send_cmd(RX_BYTE, ...) << shift)
MfrIdOr(id, byte, shift) == BitOr(id, Shl(byte, shift))

\* mutant of Acked: the result of the step is not tested
AckedAlways(ack) == TRUE

\* if (!ack): the step was acknowledged
Acked(ack) == ack = 0

\* OPCODE_MANUFACTURER_ID | dev_addr | RW_BIT
MfrIdByte(dev_addr) == BitOr(BitOr(OPCODE_MANUFACTURER_ID, dev_addr), RW_BIT)

read_mfr_id ==
    /\ \/ /\ core0.pc = "read_mfr_id"
          /\ core0' = CallSendCmd([core0 EXCEPT !.id = 0], DISCOVERY, 0, "read_mfr_id_disc")
       \/ /\ core0.pc = "read_mfr_id_disc"
          /\ core0' =
                IF Acked(core0.ret)
                THEN CallSendCmd(core0, TX_BYTE, MfrIdByte(core0.mf_dev),
                                 "read_mfr_id_op")
                ELSE Return0([core0 EXCEPT !.mf_dev = 0, !.id = 0], core0.id)
       \/ /\ core0.pc = "read_mfr_id_op"
          /\ core0' =
                IF Acked(core0.ret)
                THEN CallSendCmd(core0, RX_BYTE, SEND_ACK, "read_mfr_id_b0")
                ELSE Return0([core0 EXCEPT !.mf_dev = 0, !.id = 0], core0.id)
       \/ /\ core0.pc = "read_mfr_id_b0"
          /\ core0' = CallSendCmd([core0 EXCEPT !.id = MfrIdOr(core0.id, core0.ret, 16)],
                                  RX_BYTE, SEND_ACK, "read_mfr_id_b1")
       \/ /\ core0.pc = "read_mfr_id_b1"
          /\ core0' = CallSendCmd([core0 EXCEPT !.id = MfrIdOr(core0.id, core0.ret, 8)],
                                  RX_BYTE, SEND_NACK, "read_mfr_id_b2")
       \/ /\ core0.pc = "read_mfr_id_b2"
          /\ core0' = Return0([core0 EXCEPT !.mf_dev = 0, !.id = 0],
                              MfrIdOr(core0.id, core0.ret, 0))
    /\ UNCHANGED <<fifo01, fifo10, hw, core1, resp, bus, g1, g0, exec_log, raw, device, timer>>

(***************************************************************************)
(* main / handle_command (core 0).  The fields of a command line are taken *)
(* as sscanf("0x%x") leaves them: unsigned values, not yet narrowed.       *)
(***************************************************************************)
\* the content of a byte of read_buffer that was never written
Indeterminate == 256

\* what a never-written byte of the heap may read as
HeapBytes == {0, 170}

TxByteInputs == {0, 165}

MfrIdInputs == {0, 2}

\* readBlock inputs <<dev_addr, start_addr, len>>: blocks read from the device,
\* none longer than MaxBlockLen, one of them with a device address that covers
\* the read/write bit of the opcode byte, and blocks that end beyond the array
ReadBlockInputs ==
    {<<0, EEPROM_LIMIT - MaxBlockLen, MaxBlockLen>>, <<0, 0, 1>>, <<2, 127, 1>>,
     <<0, 5, 0>>, <<0, 0, 256>>, <<1, 0, 1>>}
    \cup {<<0, 120, 16>>, <<0, 128, 1>>, <<0, 127, 2>>, <<0, 0, 129>>, <<0, 200, 100>>,
          <<0, 255, 255>>, <<0, 376, 16>>}

NoResponse == [status |-> "", command |-> "", text |-> "", value |-> 0, data |-> <<>>]

Response(status, command, text, value, data) ==
    [status |-> status, command |-> command, text |-> text, value |-> value, data |-> data]

\* uint8_t ack = send_cmd(DISCOVERY, 0); printf(... ack == 0x00 ? "ACK" : "NACK")
handle_command_discoveryResponse ==
    /\ \/ /\ core0.pc = "idle"
          /\ core0' = CallSendCmd([core0 EXCEPT !.command = "discoveryResponse"],
                                  DISCOVERY, 0, "hc_discovery")
          /\ resp' = NoResponse
          /\ g0' = G0Blank
       \/ /\ core0.pc = "hc_discovery"
          /\ resp' = Response("success", "discoveryResponse",
                              IF core0.ret = 0 THEN "ACK" ELSE "NACK", core0.ret, <<>>)
          /\ core0' = Core0Blank
          /\ g0' = g0
    /\ UNCHANGED <<fifo01, fifo10, hw, core1, bus, g1, exec_log, raw, device, timer>>

\* data_val = (uint8_t)temp_val; uint8_t ack = send_cmd(TX_BYTE, data_val)
handle_command_txByte ==
    /\ \/ /\ core0.pc = "idle"
          /\ \E temp_val \in TxByteInputs :
                core0' = CallSendCmd([core0 EXCEPT !.command = "txByte",
                                                   !.data_val = U8(temp_val)],
                                     TX_BYTE, U8(temp_val), "hc_tx")
          /\ resp' = NoResponse
          /\ g0' = G0Blank
       \/ /\ core0.pc = "hc_tx"
          /\ resp' = Response("success", "txByte",
                              IF core0.ret = 0 THEN "ACK" ELSE "NACK", core0.ret, <<>>)
          /\ core0' = Core0Blank
          /\ g0' = g0
    /\ UNCHANGED <<fifo01, fifo10, hw, core1, bus, g1, exec_log, raw, device, timer>>

\* uint8_t received = send_cmd(RX_BYTE, 0)
handle_command_rxByte ==
    /\ \/ /\ core0.pc = "idle"
          /\ core0' = CallSendCmd([core0 EXCEPT !.command = "rxByte"],
                                  RX_BYTE, 0, "hc_rx")
          /\ resp' = NoResponse
          /\ g0' = G0Blank
       \/ /\ core0.pc = "hc_rx"
          /\ resp' = Response("success", "rxByte", "", core0.ret, <<>>)
          /\ core0' = Core0Blank
          /\ g0' = g0
    /\ UNCHANGED <<fifo01, fifo10, hw, core1, bus, g1, exec_log, raw, device, timer>>

\* dev_addr = (uint8_t)temp_val; uint32_t received = read_mfr_id(dev_addr)
handle_command_manufacturerId ==
    /\ \/ /\ core0.pc = "idle"
          /\ \E temp_val \in MfrIdInputs :
                core0' = Call0([core0 EXCEPT !.command = "manufacturerId",
                                             !.dev_addr = U8(temp_val),
                                             !.mf_dev = U8(temp_val)],
                               "read_mfr_id", "hc_mfr")
          /\ resp' = NoResponse
          /\ g0' = G0Blank
       \/ /\ core0.pc = "hc_mfr"
          /\ resp' = IF core0.ret = 0
                     THEN Response("error", "manufacturerId",
                                   "Error: Manufacturer ID is zero", 0, <<>>)
                     ELSE Response("success", "manufacturerId", "", core0.ret, <<>>)
          /\ core0' = Core0Blank
          /\ g0' = g0
    /\ UNCHANGED <<fifo01, fifo10, hw, core1, bus, g1, exec_log, raw, device, timer>>

\* the bytes the success branch prints: read_buffer[0 .. block_len - 1]
Printed(buffer, block_len, garbage) ==
    [i \in 1 .. block_len |->
        IF buffer[i - 1] = Indeterminate THEN garbage ELSE buffer[i - 1]]

\* read_buffer = malloc(block_len);
\* result = read_block((uint8_t)dev_addr, (uint8_t)start_addr, read_buffer, (uint8_t)block_len)
handle_command_readBlock ==
    /\ \/ /\ core0.pc = "idle"
          /\ \E in \in ReadBlockInputs, allocated \in BOOLEAN :
                IF allocated
                THEN /\ core0' = Call0([core0 EXCEPT
                                          !.command = "readBlock",
                                          !.dev_addr = in[1],
                                          !.start_addr = in[2],
                                          !.block_len = in[3],
                                          !.read_buffer = [i \in 0 .. (in[3] - 1) |-> Indeterminate],
                                          !.rb_dev = U8(in[1]),
                                          !.rb_addr = U8(in[2]),
                                          !.rb_len = U8(in[3])],
                                       "read_block", "hc_rb")
                     /\ resp' = NoResponse
                ELSE /\ core0' = Core0Blank
                     /\ resp' = Response("error", "readBlock", "Memory allocation error",
                                         0, <<>>)
          /\ g0' = G0Blank
       \/ /\ core0.pc = "hc_rb"
          /\ \E garbage \in HeapBytes :
                resp' = IF core0.ret < 0
                        THEN Response("error", "readBlock", "Error", core0.ret, <<>>)
                        ELSE Response("success", "readBlock", "", core0.ret,
                                      Printed(core0.read_buffer, core0.block_len, garbage))
          /\ core0' = Core0Blank
          /\ g0' = g0
    /\ UNCHANGED <<fifo01, fifo10, hw, core1, bus, g1, exec_log, raw, device, timer>>

\* any other command name
handle_command_unknown ==
    /\ core0.pc = "idle"
    /\ resp' = Response("error", "unknown", "Invalid Command", 0, <<>>)
    /\ core0' = Core0Blank
    /\ g0' = G0Blank
    /\ UNCHANGED <<fifo01, fifo10, hw, core1, bus, g1, exec_log, raw, device, timer>>

handle_command ==
    \/ handle_command_discoveryResponse
    \/ handle_command_txByte
    \/ handle_command_rxByte
    \/ handle_command_manufacturerId
    \/ handle_command_readBlock
    \/ handle_command_unknown

SessionOperations ==
    \/ stop_con
    \/ load_address
    \/ read_eeprom
    \/ verified_read
    \/ read_block
    \/ read_mfr_id

(***************************************************************************)
(* The program: both cores.                                                *)
(***************************************************************************)
Core0Next == handle_command \/ SessionOperations \/ send_cmd

Core1Next == core1_entry \/ Primitives

Next == Core0Next \/ Core1Next

Spec == Init /\ [][Next]_vars

\* Both cores are hardware contexts that keep executing: a step of core 1 that
\* stays possible is taken, and so is a step of send_cmd on core 0.
Fairness == WF_vars(Core1Next) /\ WF_vars(send_cmd)

FairSpec == Spec /\ Fairness

FairSpecRaw == SpecRaw /\ Fairness

(***************************************************************************)
(* The session harness: core 0 calls one session operation directly, with  *)
(* arguments the command dispatcher never produces included, and keeps the *)
(* value it returned.                                                      *)
(***************************************************************************)
SessionCall(op, dev, addr, len) == [op |-> op, dev |-> dev, addr |-> addr, len |-> len]

\* device addresses: the documented 0, one in the address field of the opcode,
\* one that covers the read/write bit and one that covers the opcode field
SessionDevs == {0, 2, 1, 16}

SessionCalls ==
    {SessionCall("load_address", dev, 5, 0) : dev \in SessionDevs}
    \cup {SessionCall("load_address", 0, addr, 0) : addr \in {0, 127, 128, 129, 255}}
    \cup {SessionCall("read_eeprom", dev, 5, 0) : dev \in SessionDevs}
    \cup {SessionCall("read_eeprom", 0, addr, 0) : addr \in {127, 128, 129, 255}}
    \cup {SessionCall("verified_read", 0, addr, 0) : addr \in {5, 128, 129}}
    \cup {SessionCall("read_block", 0, EEPROM_LIMIT - MaxBlockLen, MaxBlockLen),
          SessionCall("read_block", 0, 127, 1), SessionCall("read_block", 0, 128, 0),
          SessionCall("read_block", 0, 129, 0), SessionCall("read_block", 0, 200, 100)}
    \cup {SessionCall("read_mfr_id", dev, 0, 0) : dev \in {0, 2}}

\* the call: the arguments are uint8_t parameters of the operation called
SessionEnter(c, call) ==
    CASE call.op = "load_address" ->
            Call0([c EXCEPT !.la_dev = U8(call.dev), !.la_addr = U8(call.addr)],
                  "load_address", "session_ret")
      [] call.op = "read_eeprom" ->
            Call0([c EXCEPT !.re_dev = U8(call.dev), !.re_addr = U8(call.addr)],
                  "read_eeprom", "session_ret")
      [] call.op = "verified_read" ->
            Call0([c EXCEPT !.vr_dev = U8(call.dev), !.vr_addr = U8(call.addr)],
                  "verified_read", "session_ret")
      [] call.op = "read_block" ->
            Call0([c EXCEPT !.rb_dev = U8(call.dev), !.rb_addr = U8(call.addr),
                            !.rb_len = U8(call.len),
                            !.read_buffer = [i \in 0 .. (call.len - 1) |-> Indeterminate]],
                  "read_block", "session_ret")
      [] call.op = "read_mfr_id" ->
            Call0([c EXCEPT !.mf_dev = U8(call.dev)], "read_mfr_id", "session_ret")

SessionStart ==
    /\ core0.pc = "idle"
    /\ \E call \in SessionCalls :
          /\ raw' = [n |-> 0, sent |-> <<call>>, got |-> <<>>]
          /\ core0' = SessionEnter(core0, call)
    /\ g0' = G0Blank
    /\ UNCHANGED <<fifo01, fifo10, hw, core1, resp, bus, g1, exec_log, device, timer>>

SessionReturn ==
    /\ core0.pc = "session_ret"
    /\ raw' = [raw EXCEPT !.got = <<core0.ret>>]
    /\ core0' = Core0Blank
    /\ UNCHANGED <<fifo01, fifo10, hw, core1, resp, bus, g1, g0, exec_log, device, timer>>

NextSession ==
    \/ SessionStart
    \/ SessionReturn
    \/ SessionOperations
    \/ send_cmd
    \/ core1_entry
    \/ Primitives

SpecSession == Init /\ [][NextSession]_vars

(***************************************************************************)
(* The byte harness: core 0 sends one request at a time, TX_BYTE with      *)
(* every 8-bit value among them.                                           *)
(***************************************************************************)
ByteRequests ==
    {<<TX_BYTE, v>> : v \in 0 .. 255}
    \cup {<<DISCOVERY, 0>>, <<RX_BYTE, SEND_ACK>>, <<RX_BYTE, SEND_NACK>>, <<0, 0>>}
    \cup {<<DISCOVERY, 255>>, <<RX_BYTE, 255>>}

ByteCall ==
    /\ core0.pc = "idle"
    /\ \E rq \in ByteRequests :
          /\ raw' = [n |-> 0, sent |-> <<[cmd |-> rq[1], data |-> rq[2]]>>, got |-> <<>>]
          /\ core0' = CallSendCmd(core0, rq[1], rq[2], "byte_ret")
    /\ g0' = G0Blank
    /\ UNCHANGED <<fifo01, fifo10, hw, core1, resp, bus, g1, exec_log, device, timer>>

ByteReturn ==
    /\ core0.pc = "byte_ret"
    /\ raw' = [raw EXCEPT !.got = <<core0.ret>>]
    /\ core0' = Core0Blank
    /\ UNCHANGED <<fifo01, fifo10, hw, core1, resp, bus, g1, g0, exec_log, device, timer>>

NextByte ==
    \/ ByteCall
    \/ ByteReturn
    \/ send_cmd
    \/ core1_entry
    \/ Primitives

\* the line is connected to a device that may present any level at any sample
InitByte == Launched("any")

SpecByte == InitByte /\ [][NextByte]_vars

(***************************************************************************)
(* The loopback harness: the line is tied to a device that presents, while *)
(* a byte is received, the symbols of the byte transmitted before it.      *)
(* Core 0 transmits a byte and then receives one.                          *)
(***************************************************************************)
LoopSend ==
    /\ core0.pc = "idle"
    /\ \E v \in 0 .. 255 :
          /\ raw' = [n |-> 0, sent |-> <<[cmd |-> TX_BYTE, data |-> v]>>, got |-> <<>>]
          /\ core0' = CallSendCmd(core0, TX_BYTE, v, "loop_sent")
    /\ g0' = G0Blank
    /\ device' = Device("loopback")
    /\ UNCHANGED <<fifo01, fifo10, hw, core1, resp, bus, g1, exec_log, timer>>

LoopReceive ==
    /\ core0.pc = "loop_sent"
    /\ \E ack \in {SEND_ACK, SEND_NACK} :
          core0' = CallSendCmd(core0, RX_BYTE, ack, "loop_ret")
    /\ raw' = [raw EXCEPT !.got = <<core0.ret>>]
    /\ UNCHANGED <<fifo01, fifo10, hw, core1, resp, bus, g1, g0, exec_log, device, timer>>

LoopReturn ==
    /\ core0.pc = "loop_ret"
    /\ raw' = [raw EXCEPT !.got = Append(raw.got, core0.ret)]
    /\ core0' = Core0Blank
    /\ UNCHANGED <<fifo01, fifo10, hw, core1, resp, bus, g1, g0, exec_log, device, timer>>

NextLoop ==
    \/ LoopSend
    \/ LoopReceive
    \/ LoopReturn
    \/ send_cmd
    \/ core1_entry
    \/ tx_one
    \/ tx_zero
    \/ read_bit
    \/ ack_nack
    \/ tx_byte
    \/ read_byte
    \/ rx_byte

InitLoop == Launched("loopback")

SpecLoop == InitLoop /\ [][NextLoop]_vars

(***************************************************************************)
(* Properties.                                                             *)
(***************************************************************************)
\* core 1 holds a request: it has popped one and not yet pushed its result
InService == core1.pc \notin {"c1_init", "c1_pop"}

\* core 0 is inside send_cmd
InSendCmd == core0.pc \in {"send_cmd", "send_cmd_pop"}

KnownOpcodes == {TX_BYTE, DISCOVERY, RX_BYTE}

\* C1: for N sequential send_cmd calls the i-th result returned to the caller is
\* the result core 1 computed for the i-th request sent: the result carries the
\* tag of the i-th request, that request was served exactly once, it is the
\* envelope the i-th call packed, and no result is lost or duplicated.
C1_ResponsePairing ==
    /\ Len(raw.got) <= Len(raw.sent)
    /\ (core0.pc = "idle" => Len(raw.got) = Len(raw.sent))
    /\ \A t \in DOMAIN exec_log : exec_log[t].n <= 1
    /\ \A i \in 1 .. Len(raw.got) :
          /\ raw.got[i].tag = i
          /\ exec_log[i].n = 1
          /\ exec_log[i].item = Pack(raw.sent[i].cmd, raw.sent[i].data)
          /\ raw.got[i].ack = exec_log[i].ack

\* two calls returned, with different results for different requests
C1_Witness ==
    /\ Len(raw.got) = 2
    /\ raw.sent[1] # raw.sent[2]
    /\ raw.got[1].ack # raw.got[2].ack

\* C2: at most one request is outstanding: send_cmd pushes only when every
\* earlier result was popped, each FIFO holds at most one item and the two are
\* never both non-empty; the one outstanding request is in exactly one place.
C2_SingleOutstanding ==
    /\ g0.outstanding \in {0, 1}
    /\ Len(fifo01) <= 1
    /\ Len(fifo10) <= 1
    /\ ~(Len(fifo01) > 0 /\ Len(fifo10) > 0)
    /\ (core0.pc = "send_cmd" =>
           g0.outstanding = 0 /\ fifo01 = <<>> /\ fifo10 = <<>> /\ ~InService)
    /\ Len(fifo01) + Len(fifo10) + (IF InService THEN 1 ELSE 0) = g0.outstanding

\* a result waits in the response FIFO while a session operation is blocked in send_cmd
C2_Witness ==
    /\ Len(fifo10) = 1
    /\ core0.pc = "send_cmd_pop"
    /\ Len(core0.stack) >= 4

\* C3: under fair scheduling every send_cmd call returns, whatever levels the
\* device presents: no step of a primitive waits for a line level.
C3_SendCmdReturns == InSendCmd ~> ~InSendCmd

\* a txByte whose ack slot the device left high has returned NACK
C3_Witness ==
    /\ core0.pc = "hc_tx"
    /\ core0.ret = 255

RECURSIVE SumServed(_, _)
SumServed(log, t) == IF t = 0 THEN 0 ELSE log[t].n + SumServed(log, t - 1)

\* results core 1 has pushed, requests core 0 has pushed, requests core 1 has popped
ResultsPushed == SumServed(exec_log, MaxReqs)

RequestsPushed == raw.n - (IF core0.pc = "send_cmd" THEN 1 ELSE 0)

RequestsPopped == RequestsPushed - Len(fifo01)

\* a step that operates the line: a line operation is logged or the pin direction changes
LineStep == Len(bus') > Len(bus) \/ gpio_dir' # gpio_dir

C4_State ==
    /\ g1.nprim <= 1
    /\ (core1.pc \in {"c1_restore", "c1_push"} =>
           g1.nprim = (IF core1.cmd \in KnownOpcodes THEN 1 ELSE 0))
    /\ RequestsPopped = ResultsPushed + (IF InService THEN 1 ELSE 0)
    /\ (~InService => bus = <<>>)

C4_Step ==
    LineStep => /\ InService
                /\ InService'
                /\ core1.stack # <<>>
                /\ core1.tag = core1'.tag

\* C4: for each request popped core 1 runs exactly one primitive (none for an
\* unknown opcode) and pushes exactly one result, and every line operation is
\* made inside the primitive of the request being served, after its pop and
\* before its push.
C4_OnePrimitivePerRequest == [](C4_State) /\ [][C4_Step]_vars

\* an unknown opcode is about to be answered without a primitive, after a
\* request that ran one
C4_Witness ==
    /\ core1.pc = "c1_push"
    /\ core1.cmd \notin KnownOpcodes
    /\ g1.nprim = 0
    /\ Len(raw.got) = 1
    /\ raw.sent[1].cmd = RX_BYTE

C5_State ==
    /\ g1.nrestore <= g1.ndisable
    /\ g1.ndisable <= 1
    /\ (core1.pc \in {"c1_init", "c1_pop", "c1_push"} =>
           irq1 /\ g1.ndisable = g1.nrestore)
    /\ (core1.pc = "c1_push" => g1.ndisable = 1 /\ g1.nrestore = 1)
    /\ (core1.stack # <<>> => ~irq1)

C5_Step == LineStep => ~irq1 /\ ~irq1'

\* C5: on core 1 interrupts are disabled during every line operation of every
\* primitive; whenever core 1 is blocked on the channel (popping a request or
\* pushing a result) they are back in the state they had before the disable
\* (enabled); each request disables once and restores once before its result is
\* pushed, on every opcode path, the unknown-opcode path included.
C5_InterruptScope == [](C5_State) /\ [][C5_Step]_vars

\* the unknown-opcode path is about to push with interrupts restored
C5_Witness ==
    /\ core1.pc = "c1_push"
    /\ core1.cmd \notin KnownOpcodes
    /\ irq1
    /\ g1.ndisable = 1
    /\ g1.nrestore = 1

\* an operation on core 0 has just ended in failure: a NACK result of a
\* primitive, or a negative / zero-id return of a session operation
AfterFailure ==
    \/ /\ core0.pc \in {"hc_discovery", "hc_tx", "read_mfr_id_disc", "read_mfr_id_op",
                        "load_address_dev", "load_address_addr",
                        "read_eeprom_addressed", "read_block_disc"}
       /\ core0.ret # 0
    \/ /\ core0.pc \in {"read_eeprom_loaded", "verified_read_0", "verified_read_1",
                        "verified_read_2", "read_block_res", "hc_rb"}
       /\ core0.ret < 0
    \/ /\ core0.pc = "hc_mfr"
       /\ core0.ret = 0

\* the one state in which core 1 waits for a request: blocked in the pop, or,
\* when no request was ever sent, possibly not yet past its initialisation
ExecutorReady ==
    /\ fifo01 = <<>>
    /\ fifo10 = <<>>
    /\ g0.outstanding = 0
    /\ \/ core1 = Core1Blank
       \/ ~g0.sent /\ core1 = [Core1Blank EXCEPT !.pc = "c1_init"]
    /\ irq1
    /\ gpio_dir = "in"
    /\ gpio_out = 0
    /\ bus = <<>>
    /\ g1 = G1Blank

\* C6: after any primitive or session operation ends in failure both FIFOs are
\* empty and core 1 is blocked waiting for the next request with interrupts
\* enabled and the line released; that is the very state core 1 is in whenever
\* core 0 is outside send_cmd, after a success too, so the next request is
\* served as after a success.
C6_ReadyAfterFailure ==
    /\ (AfterFailure => ExecutorReady)
    /\ (~InSendCmd => ExecutorReady)

\* a verified read found no majority among three good reads
C6_Witness ==
    /\ core0.pc = "read_block_res"
    /\ core0.ret = -1
    /\ Len(g0.vr_reads) = 3
    /\ \A k \in 1 .. 3 : g0.vr_reads[k] >= 0
    /\ core1 = Core1Blank

C7_State ==
    /\ (core1.pc \in {"c1_restore", "c1_push"} /\ core1.cmd \notin KnownOpcodes =>
           /\ core1.ack = 255
           /\ bus = <<>>
           /\ g1.nprim = 0
           /\ gpio_dir = "in")
    /\ \A i \in 1 .. Len(raw.got) :
          raw.sent[i].cmd \notin KnownOpcodes => raw.got[i].ack = 255
    /\ (core0.pc = "raw_ret" =>
           core1 = Core1Blank /\ fifo01 = <<>> /\ fifo10 = <<>>)

C7_Step == LineStep => core1.cmd \in KnownOpcodes

\* C7: a request whose opcode is none of TX_BYTE, DISCOVERY, RX_BYTE is answered
\* 0xFF, no line operation is made while it is served, and when its result has
\* been returned core 1 is back in its pop, ready for the next request.
C7_UnknownOpcode == [](C7_State) /\ [][C7_Step]_vars

\* an unknown opcode was answered 0xFF and the next request was served and acknowledged
C7_Witness ==
    /\ Len(raw.got) = 2
    /\ raw.sent[1].cmd = 4
    /\ raw.got[1].ack = 255
    /\ raw.sent[2].cmd = TX_BYTE
    /\ raw.got[2].ack = 0

\* the 2-of-3 vote on three read results, as the claim words it
Majority(r) ==
    IF r[2] = r[3] THEN r[2]
    ELSE IF r[3] = r[1] THEN r[1]
    ELSE -1

\* C8: when verified_read returns it has made two reads r0, r1 and, exactly when
\* they differ, a third read r2; it returns r0 if r0 = r1, otherwise r1 if
\* r1 = r2, otherwise r0 if r2 = r0, otherwise -1.
C8_VerifiedRead ==
    core0.pc = "read_block_res" =>
        LET r == g0.vr_reads
        IN  /\ Len(r) \in {2, 3}
            /\ (Len(r) = 2 <=> r[1] = r[2])
            /\ (Len(r) = 2 => core0.ret = r[1])
            /\ (Len(r) = 3 => core0.ret = Majority(r))

\* three good reads that all differ give -1, the first and the third agreeing
\* give that value, and the last two agreeing give theirs
C8_Witness ==
    /\ core0.pc = "read_block_res"
    /\ g0.vr_reads = <<5, 6, 7>>
    /\ core0.ret = -1

\* the block a readBlock command asks read_block for
BlockStart == U8(core0.start_addr)

BlockLen == U8(core0.block_len)

\* C9: when read_block returns for a block with start + length <= 128, its
\* discovery was acknowledged and every verified read it made succeeded, it
\* returns 1 and has made exactly `length` verified reads, of the addresses
\* start, start+1, ... in this order, buffer[i] holds the result of the read of
\* start+i, and no byte beyond buffer[length-1] was written.
C9_BlockRead ==
    ( /\ core0.pc = "hc_rb"
      /\ BlockStart + BlockLen <= EEPROM_LIMIT
      /\ g0.disc = <<0>>
      /\ \A k \in 1 .. Len(g0.vr_results) : g0.vr_results[k] >= 0 )
    => /\ core0.ret = 1
       /\ Len(g0.vr_calls) = BlockLen
       /\ Len(g0.vr_results) = BlockLen
       /\ \A i \in 0 .. (BlockLen - 1) :
             /\ g0.vr_calls[i + 1] = BlockStart + i
             /\ core0.read_buffer[i] = g0.vr_results[i + 1]
       /\ \A i \in DOMAIN core0.read_buffer :
             i >= BlockLen => core0.read_buffer[i] = Indeterminate

\* a block of MaxBlockLen bytes was read, its bytes differing
C9_Witness ==
    /\ core0.pc = "hc_rb"
    /\ core0.ret = 1
    /\ BlockLen = MaxBlockLen
    /\ BlockStart = EEPROM_LIMIT - MaxBlockLen
    /\ core0.read_buffer[0] # core0.read_buffer[1]

\* C10: for every start and length with start + length > 128, the sum taken
\* without 8-bit wraparound, read_block returns -1, and from the command's start
\* to that return no request is pushed: both FIFOs stay empty and core 1 makes
\* no line operation.
C10_RangeError ==
    ( /\ core0.command = "readBlock"
      /\ BlockStart + BlockLen > EEPROM_LIMIT )
    => /\ ~g0.sent
       /\ fifo01 = <<>>
       /\ fifo10 = <<>>
       /\ ~InService
       /\ bus = <<>>
       /\ core0.pc \in {"read_block", "hc_rb"}
       /\ (core0.pc = "hc_rb" => core0.ret = -1)

\* a block whose 8-bit sum would wrap below 128 was rejected
C10_Witness ==
    /\ core0.pc = "hc_rb"
    /\ core0.ret = -1
    /\ BlockStart = 200
    /\ BlockLen = 100

\* the session operation the harness called, and its arguments
Called == raw.sent[1]

\* the session operations that take an EEPROM address
AddressedOperations == {"load_address", "read_eeprom", "verified_read", "read_block"}

\* the logical address range [0,127]
InLogicalRange(addr) == addr \in 0 .. (EEPROM_LIMIT - 1)

\* the value by which an operation reports an address range error
RangeErrorOf(op) == IF op \in {"load_address", "read_block"} THEN -1 ELSE LoadError(-1)

\* C11: a session operation given an EEPROM address outside [0,127] returns its
\* range error, and from its call to its return no request is pushed: both
\* FIFOs stay empty and core 1 makes no line operation.
C11_RangeRejected ==
    ( /\ raw.sent # <<>>
      /\ Called.op \in AddressedOperations
      /\ ~InLogicalRange(Called.addr) )
    => /\ ~g0.sent
       /\ fifo01 = <<>>
       /\ fifo10 = <<>>
       /\ bus = <<>>
       /\ (core0.pc = "session_ret" => core0.ret = RangeErrorOf(Called.op))

\* the step in which handle_command prints the answer to a readBlock command
ReadBlockAnswered == core0.pc = "hc_rb" /\ core0'.pc = "idle"

C12_Step ==
    ReadBlockAnswered =>
        /\ (core0.start_addr + core0.block_len > EEPROM_LIMIT => resp'.status = "error")
        /\ (resp'.status = "success" =>
               /\ Len(resp'.data) = core0.block_len
               /\ Len(g0.vr_results) = core0.block_len
               /\ \A i \in 1 .. core0.block_len :
                     /\ g0.vr_calls[i] = core0.start_addr + (i - 1)
                     /\ resp'.data[i] = g0.vr_results[i])

\* C12: for the start_addr and len values parsed from a readBlock command, values
\* above 255 included, a block with start_addr + len > 128 is answered with an
\* error, and a success answer lists exactly len bytes, the i-th being the
\* result of the verified read of address start_addr + i.
C12_ReadBlockChecked == [][C12_Step]_vars

C13_State ==
    core0.pc = "hc_rb" =>
        /\ (g0.disc # <<>> /\ g0.disc[1] # 0 => core0.ret = -2)
        /\ (core0.ret = -2 =>
               /\ g0.disc # <<>> /\ g0.disc[1] # 0
               /\ g0.vr_calls = <<>>
               /\ g0.reqs = <<Request(DISCOVERY, 0)>>)
        /\ ((\E k \in 1 .. Len(g0.vr_results) : g0.vr_results[k] < 0) => core0.ret = -3)
        /\ (core0.ret = -3 =>
               LET n == Len(g0.vr_calls)
               IN  /\ n >= 1
                   /\ n <= BlockLen
                   /\ Len(g0.vr_results) = n
                   /\ g0.vr_results[n] < 0
                   /\ \A k \in 1 .. (n - 1) : g0.vr_results[k] >= 0
                   /\ \A k \in 1 .. n : g0.vr_calls[k] = BlockStart + (k - 1))

C13_Step ==
    /\ (core0.pc = "read_block_disc" /\ core0.ret # 0 /\ core0' # core0 =>
           core0'.pc = Head(core0.stack) /\ core0'.ret = -2 /\ fifo01' = fifo01)
    /\ (core0.pc = "read_block_res" /\ core0.ret < 0 /\ core0' # core0 =>
           core0'.pc = Head(core0.stack) /\ core0'.ret = -3 /\ fifo01' = fifo01)
    /\ (ReadBlockAnswered /\ core0.ret < 0 =>
           resp'.status = "error" /\ resp'.value = core0.ret /\ resp'.data = <<>>)

\* C13: read_block returns -2 when its discovery is not acknowledged, having
\* made no read; when a verified read returns a negative value its very next
\* step is the return of -3, so the failing address is the last one requested;
\* the command then answers with that one code and no data.
C13_BlockAbort == [](C13_State) /\ [][C13_Step]_vars

\* the verified read of the first of MaxBlockLen addresses failed and the
\* block was given up
C13_Witness ==
    /\ core0.pc = "hc_rb"
    /\ core0.ret = -3
    /\ BlockLen = MaxBlockLen
    /\ Len(g0.vr_calls) = 1

\* read_mfr_id has returned to handle_command
MfrIdReturned == core0.pc = "hc_mfr"

\* the two requests that open the manufacturer-ID query
MfrIdOpening == <<Request(DISCOVERY, 0), Request(TX_BYTE, MfrIdByte(core0.dev_addr))>>

\* C14: when read_mfr_id returns after its discovery and its opcode byte were
\* both acknowledged, it has issued, after those two, exactly three RX_BYTE
\* requests with the selectors SEND_ACK, SEND_ACK, SEND_NACK, and it returns
\* b0 * 65536 + b1 * 256 + b2 for the three bytes in the order received
\* (0x00, 0xD3, 0x80 packs to 0x00D380).
C14_MfrIdPacked ==
    /\ ( /\ MfrIdReturned
         /\ Len(g0.acks) >= 2
         /\ g0.acks[1] = 0
         /\ g0.acks[2] = 0 )
       => /\ g0.reqs = MfrIdOpening \o <<Request(RX_BYTE, SEND_ACK),
                                          Request(RX_BYTE, SEND_ACK),
                                          Request(RX_BYTE, SEND_NACK)>>
          /\ Len(g0.acks) = 5
          /\ core0.ret = g0.acks[3] * 65536 + g0.acks[4] * 256 + g0.acks[5]
    /\ MfrIdOr(MfrIdOr(MfrIdOr(0, 0, 16), 211, 8), 128, 0) = 54144

\* three different bytes were received and packed, the first one highest
C14_Witness ==
    /\ MfrIdReturned
    /\ g0.acks = <<0, 0, 5, 6, 7>>
    /\ core0.ret = 329223

\* C15: when the discovery of read_mfr_id is not acknowledged, DISCOVERY is the
\* only request it issues; when the opcode byte is not acknowledged, no RX_BYTE
\* request follows it; in both cases read_mfr_id returns 0.
C15_MfrIdFailure ==
    MfrIdReturned =>
        /\ Len(g0.acks) >= 1
        /\ (g0.acks[1] # 0 =>
               /\ g0.reqs = <<Request(DISCOVERY, 0)>>
               /\ Len(g0.acks) = 1
               /\ core0.ret = 0)
        /\ (g0.acks[1] = 0 /\ g0.acks[2] # 0 =>
               /\ g0.reqs = MfrIdOpening
               /\ Len(g0.acks) = 2
               /\ core0.ret = 0)

\* the opcode byte was not acknowledged after an acknowledged discovery
C15_Witness ==
    /\ MfrIdReturned
    /\ g0.acks = <<0, 255>>
    /\ core0.ret = 0
    /\ core0.dev_addr = 2

\* a session operation called directly has returned
Returned(op) == core0.pc = "session_ret" /\ Called.op = op

\* the requests of load_address and of read_eeprom, for the arguments of the call
WriteAddressing == Request(TX_BYTE, AddressingByte(Called.dev, 0))

AddressLoad == Request(TX_BYTE, Called.addr)

ReadAddressing == Request(TX_BYTE, AddressingByte(Called.dev, RW_BIT))

ByteRead == Request(RX_BYTE, SEND_NACK)

\* the device addresses that lie in the address field of the opcode byte
FieldDevs == {0, 2}

\* C16: a read_eeprom in which every step is acknowledged leaves exactly this
\* trace: TX_BYTE of the write-intent addressing byte, TX_BYTE of the data
\* address, a stop-condition wait, TX_BYTE of the read-intent addressing byte,
\* RX_BYTE with SEND_NACK, a stop-condition wait.
C16_ReadSequence ==
    ( /\ Returned("read_eeprom")
      /\ Len(g0.acks) >= 3
      /\ \A k \in 1 .. 3 : g0.acks[k] = 0 )
    => /\ g0.reqs = <<WriteAddressing, AddressLoad, StopWait,
                      ReadAddressing, ByteRead, StopWait>>
       /\ Len(g0.acks) = 4
       /\ (Called.dev \in FieldDevs =>
              /\ WriteAddressing.data = OPCODE_EEPROM_ACCESS + Called.dev
              /\ ReadAddressing.data = OPCODE_EEPROM_ACCESS + Called.dev + RW_BIT)

\* a fully acknowledged read of address 127 of device 0 returned a byte
C16_Witness ==
    /\ Returned("read_eeprom")
    /\ Called.addr = 127
    /\ g0.acks = <<0, 0, 0, 6>>
    /\ core0.ret = 6

\* C17: read_eeprom returns the received byte, a value in 0..255, or a negative
\* code that names its failure point: -6 the address range check, -7 the NACK
\* of the write-intent addressing byte, -8 the NACK of the address byte, -5 the
\* NACK of the read-intent addressing byte; the failing step is the last
\* request of the trace.
C17_ReadCodes ==
    Returned("read_eeprom") =>
        /\ core0.ret \in (0 .. 255) \cup {-6, -7, -8, -5}
        /\ (core0.ret = -6 <=> g0.reqs = <<>>)
        /\ (core0.ret = -7 <=> Len(g0.acks) = 1 /\ g0.acks[1] # 0)
        /\ (core0.ret = -7 => g0.reqs = <<WriteAddressing>>)
        /\ (core0.ret = -8 <=> Len(g0.acks) = 2 /\ g0.acks[2] # 0)
        /\ (core0.ret = -8 => g0.reqs = <<WriteAddressing, AddressLoad>>)
        /\ (core0.ret = -5 <=> Len(g0.acks) = 3 /\ g0.acks[3] # 0)
        /\ (core0.ret = -5 =>
               g0.reqs = <<WriteAddressing, AddressLoad, StopWait, ReadAddressing>>)
        /\ (core0.ret >= 0 <=> Len(g0.acks) = 4)
        /\ (core0.ret >= 0 => core0.ret = g0.acks[4])

\* the read-intent addressing byte was not acknowledged
C17_Witness ==
    /\ Returned("read_eeprom")
    /\ core0.ret = -5
    /\ g0.acks = <<0, 0, 255>>

\* C18: load_address returns 1 exactly when the addressing byte and the address
\* byte were both acknowledged, -2 exactly when the addressing byte was not
\* acknowledged, the address byte then never being transmitted, and -3 exactly
\* when the address byte was not acknowledged.
C18_LoadCodes ==
    Returned("load_address") =>
        /\ core0.ret \in {1, -1, -2, -3}
        /\ (core0.ret = 1 <=> g0.acks = <<0, 0>>)
        /\ (core0.ret = 1 => g0.reqs = <<WriteAddressing, AddressLoad>>)
        /\ (core0.ret = -2 <=> Len(g0.acks) = 1 /\ g0.acks[1] # 0)
        /\ (core0.ret = -2 => g0.reqs = <<WriteAddressing>>)
        /\ (core0.ret = -3 <=> Len(g0.acks) = 2 /\ g0.acks[2] # 0)
        /\ (core0.ret = -3 => g0.reqs = <<WriteAddressing, AddressLoad>>)
        /\ (core0.ret = -1 <=> g0.reqs = <<>>)

\* the addressing byte was not acknowledged and nothing more was sent
C18_Witness ==
    /\ Returned("load_address")
    /\ core0.ret = -2
    /\ g0.reqs = <<WriteAddressing>>
    /\ g0.acks = <<255>>

\* core 0 is about to push the request of the given step of a session operation
Sending(step) ==
    core0.pc = "send_cmd" /\ core0.stack # <<>> /\ Head(core0.stack) = step

\* the opcode field (high nibble) and the read/write bit of a byte
OpcodeField(byte) == byte \div 16

IntentBit(byte) == byte % 2

\* C19: for every device address the operations accept, the byte load_address
\* transmits first has the opcode field of OPCODE_EEPROM_ACCESS (0xA) and the
\* read/write bit clear, and the byte read_eeprom re-addresses the device with
\* has the same opcode field and the read/write bit set.
C19_AddressingIntent ==
    /\ (Sending("load_address_dev") =>
           /\ OpcodeField(core0.sc_data) = OpcodeField(OPCODE_EEPROM_ACCESS)
           /\ IntentBit(core0.sc_data) = 0)
    /\ (Sending("read_eeprom_addressed") =>
           /\ OpcodeField(core0.sc_data) = OpcodeField(OPCODE_EEPROM_ACCESS)
           /\ IntentBit(core0.sc_data) = RW_BIT)

\* tx_byte has returned to core1_entry
TxByteReturned == core1.pc = "c1_ack" /\ core1.cmd = TX_BYTE

\* bit k of a byte, bit 7 the most significant
BitOf(v, k) == (v \div (2 ^ k)) % 2

\* the two line operations of the transmit slot of a bit
TxSlot(bit) ==
    IF bit = 1
    THEN <<BusOp("low", time_low1, NoLevel), BusOp("high", tx_one_btime, NoLevel)>>
    ELSE <<BusOp("low", time_low0, NoLevel), BusOp("high", tx_zero_btime, NoLevel)>>

\* the four line operations of a read slot in which the line read lvl
ReadSlot(lvl) ==
    <<BusOp("low", time_rd, NoLevel), BusOp("high", time_mrs, NoLevel),
      BusOp("sample", rd_btime, lvl), BusOp("high", 0, NoLevel)>>

\* C20: for every 8-bit value v, when tx_byte(v) returns the line has seen
\* exactly 8 transmit slots, the i-th carrying bit 7-i of v, followed by exactly
\* one read slot, and tx_byte returns 0x00 if that slot read low and 0xFF if
\* it read high; the 9 slots are the same whatever the device answered.
C20_TxByteSlots ==
    TxByteReturned =>
        /\ Len(bus) = 20
        /\ \A i \in 0 .. 7 :
              SubSeq(bus, 2 * i + 1, 2 * i + 2) = TxSlot(BitOf(core1.data, 7 - i))
        /\ bus[19].lvl \in {LOW, HIGH}
        /\ SubSeq(bus, 17, 20) = ReadSlot(bus[19].lvl)
        /\ core1.ret = (IF bus[19].lvl = LOW THEN 0 ELSE 255)

\* 0xA5 was transmitted and the device left the ack slot high
C20_Witness ==
    /\ TxByteReturned
    /\ core1.data = 165
    /\ core1.ret = 255

\* rx_byte has returned to core1_entry
RxByteReturned == core1.pc = "c1_ack" /\ core1.cmd = RX_BYTE

\* the level sampled in the i-th read slot of a received byte, i = 0 .. 7
Sampled(i) == bus[4 * i + 3].lvl

\* the byte whose bit 7-i is the level sampled in read slot i, slots 0 .. n-1
RECURSIVE SampledByte(_)
SampledByte(n) ==
    IF n = 0 THEN 0 ELSE SampledByte(n - 1) + Sampled(n - 1) * (2 ^ (8 - n))

\* C21: for every sequence of 8 sampled levels, when rx_byte returns the line
\* has seen exactly 8 read slots followed by exactly one transmit slot, the
\* byte returned has the first level sampled as bit 7 and the last as bit 0,
\* and the transmit slot carries a 1 for the payload SEND_NACK and a 0 for the
\* payload SEND_ACK.
C21_RxByteSlots ==
    RxByteReturned =>
        /\ Len(bus) = 34
        /\ \A i \in 0 .. 7 :
              /\ Sampled(i) \in {LOW, HIGH}
              /\ SubSeq(bus, 4 * i + 1, 4 * i + 4) = ReadSlot(Sampled(i))
        /\ core1.ret = SampledByte(8)
        /\ (core1.data = SEND_NACK => SubSeq(bus, 33, 34) = TxSlot(1))
        /\ (core1.data = SEND_ACK => SubSeq(bus, 33, 34) = TxSlot(0))

\* the levels 1,0,1,0,0,1,0,1 were sampled and 0xA5 returned, the frame closed
\* with a NACK to the device
C21_Witness ==
    /\ RxByteReturned
    /\ core1.data = SEND_NACK
    /\ core1.ret = 165
    /\ Sampled(0) = HIGH
    /\ Sampled(7) = HIGH
    /\ Sampled(1) = LOW

\* the byte the loopback harness transmitted
Transmitted == raw.sent[1].data

C22_Looped ==
    /\ Len(device.seen) >= 8
    /\ \A i \in 0 .. 7 :
          /\ device.seen[i + 1] = BitOf(Transmitted, 7 - i)
          /\ Sampled(i) = device.seen[i + 1]

\* C22: for every 8-bit value v, when the 8 levels read_byte samples are, in
\* order, the 8 symbols tx_byte emitted for v, rx_byte returns v and send_cmd
\* hands v back to its caller.
C22_RoundTrip ==
    /\ (device.mode = "loopback" /\ RxByteReturned =>
           C22_Looped /\ core1.ret = Transmitted)
    /\ (core0.pc = "loop_ret" => core0.ret = Transmitted)

\* 0x5A came back after it was transmitted
C22_Witness ==
    /\ core0.pc = "loop_ret"
    /\ Transmitted = 90
    /\ core0.ret = 90
    /\ device.seen[1] = LOW
    /\ device.seen[2] = HIGH

DiscoveryReturned == core1.pc = "c1_ack" /\ core1.cmd = DISCOVERY

\* the operations of one discovery, in order
DiscoverySequence(lvl) ==
    <<BusOp("high", 200, NoLevel), BusOp("low", 150, NoLevel),
      BusOp("high", 100, NoLevel), BusOp("low", 1, NoLevel),
      BusOp("high", 3, NoLevel), BusOp("sample", 150, lvl)>>

Samples(log) == {i \in 1 .. Len(log) : log[i].op = "sample"}

\* C23: discovery returns 0x00 exactly when its single sample of the line
\* reads low and 0xFF exactly when it reads high.
C23_DiscoveryResult ==
    DiscoveryReturned =>
        /\ Samples(bus) = {Len(bus)}
        /\ bus[Len(bus)].lvl \in {LOW, HIGH}
        /\ core1.ret = 0 <=> bus[Len(bus)].lvl = LOW
        /\ core1.ret = 255 <=> bus[Len(bus)].lvl = HIGH

\* the device held the line low in the detect window
C23_Witness ==
    /\ DiscoveryReturned
    /\ bus[Len(bus)].op = "sample"
    /\ bus[Len(bus)].lvl = LOW
    /\ core1.ret = 0

C24_State ==
    core1.cmd = DISCOVERY /\ InService =>
        /\ \E lvl \in {LOW, HIGH} :
              bus = SubSeq(DiscoverySequence(lvl), 1, Len(bus))
        /\ core1.pc \in {"c1_ack", "c1_restore", "c1_push"} <=> Len(bus) = 6
        /\ Len(bus) = 6 => Cardinality(Samples(bus)) = 1

C24_Step ==
    core1.cmd = DISCOVERY /\ InService /\ Len(bus') = Len(bus) + 1 =>
        LET o == bus'[Len(bus')]
        IN /\ o.op = "low" => gpio_dir' = "out"
           /\ o.op \in {"high", "sample"} => gpio_dir' = "in"
           /\ o.op = "sample" =>
                 /\ o.us = 150
                 /\ core1'.ret = DiscoveryResult(o.lvl)
                 /\ core1'.pc = "c1_ack"

\* C24: discovery performs its line operations in the order release, drive
\* low, release, drive low, release, sample; exactly one sample is taken; the
\* result is returned only with the tDACK wait that follows the sample.
C24_DiscoveryOrder == [](C24_State) /\ [][C24_Step]_vars

\* a discovery that has released the line for tMSDR and is about to sample
C24_Witness ==
    /\ core1.cmd = DISCOVERY
    /\ core1.pc = "discovery_sample"
    /\ Len(bus) = 5
    /\ gpio_dir = "in"

\* the request the byte harness made
Requested == raw.sent[1]

AckOrNack == {0, 255}

C25_State ==
    /\ (core1.pc = "c1_ack" /\ core1.cmd \in {TX_BYTE, DISCOVERY} =>
           core1.ret \in AckOrNack)
    /\ (core0.pc = "byte_ret" /\ Requested.cmd \in {TX_BYTE, DISCOVERY} =>
           core0.ret \in AckOrNack)

C25_Step ==
    core1.pc = "ack_nack_ret" /\ core1'.pc # core1.pc =>
        /\ core1.ret \in {0, 1}
        /\ core1.ret = 1 => core1'.ret = 255
        /\ core1.ret = 0 => core1'.ret = 0

\* C25: ack_nack maps a read bit of 1 to 0xFF and a read bit of 0 to 0x00, and
\* the result of every TX_BYTE and every DISCOVERY request is 0x00 or 0xFF.
C25_AckOrNack == [](C25_State) /\ [][C25_Step]_vars

\* a TX_BYTE whose ack slot read 1 has handed 0xFF to the caller of send_cmd
C25_Witness ==
    /\ core0.pc = "byte_ret"
    /\ Requested.cmd = TX_BYTE
    /\ Requested.data = 165
    /\ core0.ret = 255

RECURSIVE SlotTime(_)
\* the time the operations of a slot take together
SlotTime(slot) == IF slot = <<>> THEN 0 ELSE Head(slot).us + SlotTime(Tail(slot))

\* the operations of a slot during which the line is driven low
LowTime(slot) == SlotTime(SelectSeq(slot, LAMBDA o : o.op = "low"))

\* the i-th transmit slot of a TX_BYTE (i from 0) and its closing read slot
TxByteSlot(i) == SubSeq(bus, 2 * i + 1, 2 * i + 2)
TxByteAckSlot == SubSeq(bus, 17, 20)

\* the i-th read slot of an RX_BYTE (i from 0) and its closing transmit slot
RxByteSlot(i) == SubSeq(bus, 4 * i + 1, 4 * i + 4)
RxByteAckSlot == SubSeq(bus, 33, 34)

\* C26: a transmitted 1 holds the line low for time_low1 and a transmitted 0
\* for the strictly longer time_low0; in each transmit slot and each read slot
\* the low time plus the released time is the bit period, 25 us: 2 + 23,
\* 10 + 15 and 1 + 1 + 23.
C26_SlotTiming ==
    /\ time_low1 < time_low0
    /\ TxByteReturned =>
          /\ \A i \in 0 .. 7 :
                /\ LowTime(TxByteSlot(i)) =
                      (IF BitOf(core1.data, 7 - i) = 1 THEN time_low1 ELSE time_low0)
                /\ SlotTime(TxByteSlot(i)) = time_bit
                /\ <<TxByteSlot(i)[1].us, TxByteSlot(i)[2].us>> \in {<<2, 23>>, <<10, 15>>}
          /\ SlotTime(TxByteAckSlot) = time_bit
          /\ LowTime(TxByteAckSlot) = time_rd
          /\ [k \in 1 .. 4 |-> TxByteAckSlot[k].us] = <<1, 1, 23, 0>>
    /\ RxByteReturned =>
          /\ \A i \in 0 .. 7 :
                /\ SlotTime(RxByteSlot(i)) = time_bit
                /\ LowTime(RxByteSlot(i)) = time_rd
                /\ [k \in 1 .. 4 |-> RxByteSlot(i)[k].us] = <<1, 1, 23, 0>>
          /\ SlotTime(RxByteAckSlot) = time_bit
          /\ LowTime(RxByteAckSlot) \in {time_low1, time_low0}
    /\ time_bit = 25

\* 0x5A was transmitted: slot 0 carries a 0 (10 + 15) and slot 1 a 1 (2 + 23)
C26_Witness ==
    /\ TxByteReturned
    /\ core1.data = 90
    /\ TxByteSlot(0)[1].us = 10
    /\ TxByteSlot(1)[1].us = 2
    /\ TxByteSlot(1)[2].us = 23

\* the preset the time_* definitions select
ActivePreset == Preset(time_low1, time_low0, time_rd, time_mrs, time_bit)

\* the remainder waits derived from a preset, as tx_one_btime, tx_zero_btime
\* and rd_btime derive them
Remainders(p) == {p.bit - p.low1, p.bit - p.low0, p.bit - p.rd - p.mrs}

\* C27: each of the three timing presets has bit period >= low pulse of a 0,
\* bit period >= low pulse of a 1 and read delay + recovery time < bit period,
\* so that no derived remainder wait is negative.
C27_PresetsConsistent ==
    /\ Cardinality(Presets) = 3
    /\ ActivePreset \in Presets
    /\ \A p \in Presets :
          /\ p.bit >= p.low0
          /\ p.bit >= p.low1
          /\ p.rd + p.mrs < p.bit
          /\ \A r \in Remainders(p) : r >= 0
    /\ {tx_one_btime, tx_zero_btime, rd_btime} = Remainders(ActivePreset)
    /\ \A i \in 1 .. Len(bus) : bus[i].us >= 0

\* the three remainder waits of the active preset have been made on the line
C27_Witness ==
    /\ \E i \in 1 .. Len(bus) : bus[i].op = "high" /\ bus[i].us = tx_one_btime
    /\ \E i \in 1 .. Len(bus) : bus[i].op = "high" /\ bus[i].us = tx_zero_btime
    /\ \E i \in 1 .. Len(bus) : bus[i].op = "sample" /\ bus[i].us = rd_btime

Initialized == core1.pc # "c1_init"

\* what the pin does to the line: it pulls it to the level of the output
\* register when it is an output, and leaves it alone when it is an input
PinDrive == IF gpio_dir = "out" THEN gpio_out ELSE NoLevel

C28_State ==
    /\ Initialized => gpio_out = 0
    /\ PinDrive \in {LOW, NoLevel}

C28_Step ==
    /\ gpio_out' # gpio_out => ~Initialized
    /\ Initialized /\ PinDrive' # PinDrive =>
          /\ gpio_dir' # gpio_dir
          /\ gpio_out' = gpio_out
    /\ Initialized /\ Len(bus') = Len(bus) + 1 =>
          LET o == bus'[Len(bus')]
          IN /\ o.op = "low" => gpio_dir' = "out" /\ PinDrive' = LOW
             /\ o.op \in {"high", "sample"} => gpio_dir' = "in" /\ PinDrive' = NoLevel

\* C28: the output register of the single-wire pin is 0 from initialization
\* on and is not written afterwards; after initialization the line level is
\* changed only by switching the pin direction (output: driven low, input:
\* released).
C28_OpenDrain == [](C28_State) /\ [][C28_Step]_vars

\* the line is driven low during a transmit slot, the output register being 0
C28_Witness ==
    /\ Initialized
    /\ core1.pc = "tx_zero_high"
    /\ gpio_dir = "out"
    /\ gpio_out = 0
    /\ PinDrive = LOW

\* the state private to each context, and the channel between them
DispatchState == <<core0, resp>>
ExecutorState == <<core1, gpio_dir, gpio_out, irq1, bus>>
Channel == <<fifo01, fifo10>>

\* the positions of core 1 in core1_entry itself, outside the primitives
EntryPcs ==
    {"c1_init", "c1_pop", "c1_disable", "c1_switch", "c1_fall", "c1_ack", "c1_restore",
     "c1_push"}

C29_Step ==
    /\ ~(DispatchState' # DispatchState /\ ExecutorState' # ExecutorState)
    /\ DispatchState' # DispatchState =>
          /\ ExecutorState' = ExecutorState
          /\ Len(fifo10') <= Len(fifo10)
          /\ Len(fifo01') >= Len(fifo01)
    /\ ExecutorState' # ExecutorState =>
          /\ DispatchState' = DispatchState
          /\ Len(fifo01') <= Len(fifo01)
          /\ Len(fifo10') >= Len(fifo10)
    /\ LineStep =>
          /\ core1' # core1
          /\ core1.pc \notin EntryPcs
          /\ DispatchState' = DispatchState
          /\ Channel' = Channel

\* C29: the two contexts share nothing but the channel: every step changes
\* the state of one context only, core 0 only pushes requests and pops
\* results, core 1 only pops requests and pushes results, and every line
\* operation (drive low, release, sample) is a step of a primitive on core 1
\* that leaves core 0 and the channel as they are.
C29_Separation == [][C29_Step]_vars

\* core 0 waits in send_cmd while core 1 holds the line low
C29_Witness ==
    /\ core0.pc = "send_cmd_pop"
    /\ core1.pc \in {"tx_one_high", "tx_zero_high", "read_bit_high"}
    /\ gpio_dir = "out"
    /\ Len(bus) > 0

Payloads == 0 .. 255

\* the envelope decodes to the opcode and payload it was packed from
Decodes(cmd, data) ==
    /\ OpcodeOf(Pack(cmd, data)) = cmd
    /\ PayloadOf(Pack(cmd, data)) = data
    /\ Pack(cmd, data) = <<cmd, 0, 0, data>>

\* C30: for each opcode in {TX_BYTE, DISCOVERY, RX_BYTE} and every payload in
\* 0 .. 255, the opcode and payload core1_entry decodes from the 32-bit
\* envelope (bits 31..24 and bits 7..0) are the ones send_cmd packed into it.
C30_EnvelopeRoundTrip ==
    /\ raw.sent # <<>> =>
          /\ Requested.data \in Payloads
          /\ \A cmd \in KnownOpcodes : Decodes(cmd, Requested.data)
    /\ InService /\ Requested.cmd \in KnownOpcodes =>
          /\ core1.item = Pack(Requested.cmd, Requested.data)
          /\ core1.cmd = Requested.cmd
          /\ core1.data = Requested.data

\* core 1 has decoded the envelope of send_cmd(TX_BYTE, 0xFF)
C30_Witness ==
    /\ core1.pc = "c1_disable"
    /\ Requested = [cmd |-> TX_BYTE, data |-> 255]
    /\ core1.item = <<TX_BYTE, 0, 0, 255>>
    /\ core1.cmd = TX_BYTE
    /\ core1.data = 255

(***************************************************************************)
(* soft_delay_us: the cycle count it computes and the wait it makes.       *)
(***************************************************************************)
\* mutant of CALIBRATION: the cycles of a whole microsecond are subtracted
CalibrationWhole == 1000 \div 8

\* the calibration offset subtracted from the cycle count
CALIBRATION == 7

\* cycles the platform clock makes in a microsecond (125 MHz, 150 MHz)
CyclesPerUs(platform) == IF platform = "pico2" THEN 150 ELSE 125

\* (uint32_t)(__us / 0.008), and (uint32_t)(__us / 0.00667) under PICO2
Cycles(platform, us) ==
    IF platform = "pico2" THEN (us * 100000) \div 667 ELSE (us * 1000) \div 8

\* a - b on uint32_t, for a below 2^31 and b in 0 .. 256
WordSub(a, b) == IF a >= b THEN Word(a - b) ELSE <<255, 255, 255, 256 + a - b>>

\* uint32_t __count = (uint32_t)(__us / 0.008) - 7
Count(platform, us) == WordSub(Cycles(platform, us), CALIBRATION)

\* the value of a 32-bit word, capped at the largest integer represented
WordValue(w) ==
    IF w[1] >= 128 THEN 2147483647
    ELSE ((w[1] * 256 + w[2]) * 256 + w[3]) * 256 + w[4]

\* the arguments of the calls of soft_delay_us
Durations ==
    {200, 150, 100, 1, 3, 500,
     time_low1, tx_one_btime, time_low0, tx_zero_btime, time_rd, time_mrs, rd_btime}

DelayCall ==
    /\ core0.pc = "idle"
    /\ \E us \in Durations :
          timer' = [Timer(timer.platform) EXCEPT !.us = us]
    /\ core0' = [Core0Blank EXCEPT !.pc = "soft_delay_us", !.stack = <<"delay_ret">>]
    /\ raw' = [n |-> 0, sent |-> <<>>, got |-> <<>>]
    /\ g0' = G0Blank
    /\ UNCHANGED <<fifo01, fifo10, hw, core1, resp, bus, g1, exec_log, device>>

soft_delay_us ==
    /\ \/ /\ core0.pc = "soft_delay_us"
          /\ timer' = [timer EXCEPT !.count = Count(timer.platform, timer.us)]
          /\ core0' = [core0 EXCEPT !.pc = "busy_wait_at_least_cycles"]
       \/ /\ core0.pc = "busy_wait_at_least_cycles"
          /\ \E over \in 0 .. MaxOvershoot :
                timer' = [timer EXCEPT !.waited =
                             IF timer.count[1] >= 128 THEN WordValue(timer.count)
                             ELSE WordValue(timer.count) + over]
          /\ core0' = Return0(core0, 0)
    /\ UNCHANGED <<fifo01, fifo10, hw, core1, resp, bus, g1, g0, exec_log, raw, device>>

DelayReturn ==
    /\ core0.pc = "delay_ret"
    /\ core0' = Core0Blank
    /\ timer' = Timer(timer.platform)
    /\ UNCHANGED <<fifo01, fifo10, hw, core1, resp, bus, g1, g0, exec_log, raw, device>>

NextDelay ==
    \/ DelayCall
    \/ soft_delay_us
    \/ DelayReturn
    \/ NextByte

\* the program built for either platform
InitDelay == \E platform \in Platforms : Started("any", platform)

SpecDelay == InitDelay /\ [][NextDelay]_vars

Delayed == core0.pc = "delay_ret"

Counted == core0.pc \in {"busy_wait_at_least_cycles", "delay_ret"}

\* C38: for every duration the protocol requests (1, 2, 3, 10, 15, 23, 100,
\* 150, 200 and 500 us) and on both platforms, the cycle count soft_delay_us
\* computes, the cycles of the duration minus 7, is positive and has not
\* wrapped around as a 32-bit unsigned value.
C38_CountPositive ==
    /\ Durations = {1, 2, 3, 10, 15, 23, 100, 150, 200, 500}
    /\ \A i \in 1 .. Len(bus) : bus[i].us \in Durations \cup {0}
    /\ Counted =>
          /\ timer.us \in Durations
          /\ Cycles(timer.platform, timer.us) >= CALIBRATION
          /\ timer.count = Word(Cycles(timer.platform, timer.us) - CALIBRATION)
          /\ WordValue(timer.count) > 0
          /\ WordValue(timer.count) <= timer.us * CyclesPerUs(timer.platform)

\* the shortest wait on the Pico 2: 149 - 7 cycles
C38_Witness ==
    /\ core0.pc = "delay_ret"
    /\ timer.platform = "pico2"
    /\ timer.us = 1
    /\ timer.count = <<0, 0, 0, 142>>
    /\ timer.waited >= 142

\* the last k operations on the line
LastOps(k) == SubSeq(bus, Len(bus) - k + 1, Len(bus))

\* read_bit has just returned to its caller
ReadBitReturned == core1.pc \in {"ack_nack_ret", "read_byte_acc"}

C32_State ==
    /\ core1.pc = "read_bit_high" =>
          /\ LastOps(1) = SubSeq(ReadSlot(NoLevel), 1, 1)
          /\ gpio_dir = "out"
    /\ core1.pc = "read_bit_sample" =>
          /\ LastOps(2) = SubSeq(ReadSlot(NoLevel), 1, 2)
          /\ gpio_dir = "in"
    /\ core1.pc = "read_bit_release" =>
          /\ \E lvl \in {LOW, HIGH} :
                /\ LastOps(3) = SubSeq(ReadSlot(lvl), 1, 3)
                /\ core1.temp = lvl % 2
          /\ gpio_dir = "in"
    /\ ReadBitReturned =>
          /\ \E lvl \in {LOW, HIGH} :
                /\ LastOps(4) = ReadSlot(lvl)
                /\ core1.ret = lvl % 2
          /\ Cardinality(Samples(LastOps(4))) = 1
          /\ core1.ret \in {0, 1}
          /\ gpio_dir = "in"

C32_Step ==
    core1.pc \in {"read_bit_sample", "read_bit_release"} /\ core1' # core1 =>
        /\ gpio_dir' = "in"
        /\ bus'[Len(bus')].op # "low"

\* C32: read_bit drives the line low, releases it, samples it exactly once
\* and releases it again, in this order; it returns the sampled level masked
\* to 0 or 1; the line is driven low only before the sample.
C32_ReadBit == [](C32_State) /\ [][C32_Step]_vars

\* read_bit has returned 1 to read_byte after sampling a high line
C32_Witness ==
    /\ core1.pc = "read_byte_acc"
    /\ core1.ret = 1
    /\ LastOps(4) = ReadSlot(HIGH)
    /\ gpio_dir = "in"

\* core 0 is in the stop-condition wait
StopWaiting == core0.pc = "stop_con"

\* the requests among the entries of a trace
Requests(trace) == SelectSeq(trace, LAMBDA e : e.kind = "request")

C33_State ==
    StopWaiting =>
        /\ fifo01 = <<>>
        /\ fifo10 = <<>>
        /\ g0.outstanding = 0
        /\ Len(Requests(g0.reqs)) = Len(g0.acks)
        /\ g0.reqs # <<>>
        /\ g0.reqs[Len(g0.reqs)].kind = "request"
        /\ core1.pc = "c1_pop"
        /\ irq1
        /\ gpio_dir = "in"

C33_Step ==
    StopWaiting /\ core0' # core0 =>
        /\ UNCHANGED <<fifo01, fifo10, hw, core1, bus>>
        /\ Requests(g0'.reqs) = Requests(g0.reqs)
        /\ core0'.pc \in {"read_eeprom_readdr", "read_eeprom_ret"}

\* C33: during every stop-condition wait of read_eeprom no request is
\* outstanding on the channel, core 1 is blocked waiting for a request and the
\* line is not driven low; the wait is made by core 0 after the result of the
\* previous request was received and before the next request is sent.
C33_StopCondition == [](C33_State) /\ [][C33_Step]_vars

\* the stop-condition wait after the data byte was received
C33_Witness ==
    /\ StopWaiting
    /\ Len(g0.acks) = 4
    /\ g0.reqs[3] = StopWait
    /\ g0.reqs[5] = Request(RX_BYTE, SEND_NACK)
    /\ Head(core0.stack) = "read_eeprom_ret"

\* core 1 is blocked on the channel: at its pop or at its push
BlockedOnChannel == core1.pc \in {"c1_pop", "c1_push"}

\* C34: whenever core 1 is blocked on the channel, waiting for a request or
\* pushing a result, the pin is an input (the line is released): discovery,
\* tx_byte, rx_byte and the unknown-opcode path all end with the line released.
C34_ReleasedWhenBlocked ==
    /\ BlockedOnChannel => gpio_dir = "in"
    /\ core1.pc \in {"c1_ack", "c1_restore"} => gpio_dir = "in"

\* core 1 is about to push the result of an rx_byte closed with a NACK
C34_Witness ==
    /\ core1.pc = "c1_push"
    /\ core1.cmd = RX_BYTE
    /\ core1.data = SEND_NACK
    /\ Len(bus) = 34
    /\ bus[33].op = "low"
    /\ gpio_dir = "in"

\* read_eeprom has just returned to verified_read
ReadReturned == core0.pc \in {"verified_read_0", "verified_read_1", "verified_read_2"}

\* every step of the read was acknowledged and a byte was received
ReadSucceeded == Len(g0.acks) = 4 /\ \A i \in 1 .. 3 : g0.acks[i] = 0

\* the reads among r that returned the value v
ReadsOf(r, v) == {i \in 1 .. Len(r) : r[i] = v}

\* C35: verified_read returns a non-negative result only if at least two of
\* its reads succeeded (every step acknowledged) and received that same byte;
\* a result in 0 .. 255 never comes from a single successful read, and a
\* failure code of a read is never returned as a data value.
C35_VerifiedReadAgreement ==
    /\ ReadReturned =>
          /\ core0.ret >= 0 <=> ReadSucceeded
          /\ ReadSucceeded => core0.ret = g0.acks[4] /\ core0.ret \in 0 .. 255
    /\ Returned("verified_read") =>
          /\ Len(g0.vr_reads) \in {2, 3}
          /\ core0.ret >= 0 =>
                /\ core0.ret \in 0 .. 255
                /\ Cardinality(ReadsOf(g0.vr_reads, core0.ret)) >= 2
          /\ core0.ret < 0 =>
                \A v \in 0 .. 255 : Cardinality(ReadsOf(g0.vr_reads, v)) < 2

\* the first read failed, the second and third agreed on a byte
C35_Witness ==
    /\ Returned("verified_read")
    /\ Len(g0.vr_reads) = 3
    /\ g0.vr_reads[1] < 0
    /\ g0.vr_reads[2] >= 0
    /\ g0.vr_reads[3] = g0.vr_reads[2]
    /\ core0.ret = g0.vr_reads[2]

\* core 0 is inside the loop of read_block, below verified_read
InBlock == \E k \in 1 .. Len(core0.stack) : core0.stack[k] = "read_block_res"

\* send_cmd is about to push the data-address byte of load_address
SendingAddress == core0.pc = "send_cmd" /\ Head(core0.stack) = "load_address_addr"

\* C36: in a block read that passed validation every data-address byte sent
\* lies in [start, start + length - 1] and so in [0, 127]; the addresses are
\* visited in strictly ascending order, each one read two or three times
\* before the next.
C36_BlockAddresses ==
    /\ InBlock =>
          /\ core0.rb_addr + core0.rb_len <= 128
          /\ core0.rb_i < core0.rb_len
          /\ Len(g0.vr_calls) = core0.rb_i + 1
          /\ \A k \in 1 .. Len(g0.vr_calls) : g0.vr_calls[k] = core0.rb_addr + k - 1
          /\ core0.vr_addr = core0.rb_addr + core0.rb_i
          /\ core0.pc # "verified_read" => Len(g0.vr_reads) <= 2
    /\ InBlock /\ SendingAddress =>
          /\ core0.sc_cmd = TX_BYTE
          /\ core0.sc_data = core0.rb_addr + core0.rb_i
          /\ core0.sc_data \in core0.rb_addr .. core0.rb_addr + core0.rb_len - 1
          /\ core0.sc_data \in 0 .. 127
    /\ core0.pc = "read_block_res" => Len(g0.vr_reads) \in {2, 3}

\* the address byte of the second address of a block is about to be sent for
\* the third read of that address
C36_Witness ==
    /\ InBlock
    /\ SendingAddress
    /\ core0.rb_i = 1
    /\ core0.sc_data = core0.rb_addr + 1
    /\ Len(g0.vr_reads) = 2

(***************************************************************************)
(* Session operations called directly, their requests being counted.       *)
(***************************************************************************)
CountCalls ==
    {SessionCall("read_eeprom", 0, addr, 0) : addr \in {5, 129}}
    \cup {SessionCall("verified_read", 0, 5, 0), SessionCall("read_mfr_id", 0, 0, 0)}
    \cup {SessionCall("read_block", 0, 126, 2), SessionCall("read_block", 0, 128, 0)}

CountedStart ==
    /\ core0.pc = "idle"
    /\ \E call \in CountCalls :
          /\ raw' = [n |-> 0, sent |-> <<call>>, got |-> <<>>]
          /\ core0' = SessionEnter(core0, call)
    /\ g0' = [G0Blank EXCEPT !.counting = TRUE]
    /\ UNCHANGED <<fifo01, fifo10, hw, core1, resp, bus, g1, exec_log, device, timer>>

NextCount ==
    \/ CountedStart
    \/ SessionReturn
    \/ SessionOperations
    \/ send_cmd
    \/ core1_entry
    \/ Primitives

\* both cores run: a session operation that can take a step takes it
FairnessCount == Fairness /\ WF_vars(SessionOperations) /\ WF_vars(SessionReturn)

SpecCount == Init /\ [][NextCount]_vars /\ FairnessCount

\* a counted session operation is running, or has returned to its caller
Running == raw.sent # <<>> /\ g0.counting /\ core0.pc # "idle"

\* the most requests the operation called may issue
RequestBound ==
    CASE Called.op = "read_eeprom" -> 4
      [] Called.op = "verified_read" -> 12
      [] Called.op = "read_mfr_id" -> 5
      [] Called.op = "read_block" -> 1 + 12 * Called.len
      [] OTHER -> 0

C37_State == Running => g0.nreq <= RequestBound /\ g0.outstanding <= 1

\* C37: every session operation terminates after a bounded number of channel
\* requests, whatever the device does: read_eeprom issues at most 4,
\* verified_read at most 12, read_mfr_id at most 5 and read_block at most
\* 1 + 12 * len.
C37_BoundedRequests == [](C37_State) /\ (Running ~> ~Running)

\* a verified_read that needed all of its 12 requests has returned
C37_Witness ==
    /\ Returned("verified_read")
    /\ g0.counting
    /\ g0.nreq = 12
    /\ Len(g0.vr_reads) = 3
=============================================================================
